---- MODULE Spec2Model ----
(***************************************************************************)
(* Security Event Ledger: the hash-chained Blockchain (core/block.js,      *)
(* core/blockchain.js) and the server that queues security events and      *)
(* seals them into blocks (server.js).                                     *)
(*                                                                         *)
(* JavaScript values are tagged records, so that a number and the string   *)
(* that prints the same are different values with the same rendering.      *)
(* A string is a sequence of tokens: one token per digit, and one token    *)
(* per word or punctuation mark elsewhere.                                 *)
(***************************************************************************)
EXTENDS Integers, Sequences, FiniteSets

VARIABLES
  chain,          \* Blockchain.chain: the sequence of blocks (chain[1] is JS chain[0])
  arrays,         \* the heap of event arrays: arrays[id] is the content of array id
  pendingEvents,  \* server.js pendingEvents: the id of the array the variable is bound to
  lastFileHashes, \* server.js lastFileHashes: the Map, as its entries in insertion order
  lastListeningPorts, \* server.js lastListeningPorts: the Map, as its entries in insertion order
  lastAccounts,   \* server.js lastAccounts: the Sets users and admins, in insertion order
  inbox,          \* the routes of the HTTP requests received and not yet handled, oldest first
  pc,             \* what the single JavaScript thread is running: "idle" or "mining"
  mine,           \* the locals of the running Block.mineBlock call
  last,           \* the HTTP response sent last: the route, the status, the request body, the JSON sent
  returned,       \* the block the last call of addBlock returned
  accepted,       \* history: every event pushed on the pending queue, in push order
  oob,            \* history: the field of a sealed block written from outside, if any
  poll,           \* history: the last agent poll, what it read, found and emitted
  modules         \* the agent modules under agents/, fed what the server's agents read:
                  \* their baselines and the events handed to emitEvent, in order

\* the baselines of the monitoring agents
agentVars == <<lastFileHashes, lastListeningPorts, lastAccounts, poll, modules>>

vars == <<chain, arrays, pendingEvents, agentVars, inbox, pc, mine, last, returned, accepted, oob>>

----------------------------------------------------------------------------
(* Bounds of the model *)

MaxEvents == 2

----------------------------------------------------------------------------
(* JavaScript values *)

JUndef == [t |-> "undef"]
JNull == [t |-> "null"]
JNum(n) == [t |-> "num", n |-> n]
JStr(s) == [t |-> "str", s |-> s]
JArr(a) == [t |-> "arr", a |-> a]
JObj(p) == [t |-> "obj", p |-> p]
JRef(id) == [t |-> "ref", id |-> id]
Prop(k, v) == [k |-> k, val |-> v]

DigitChars == <<"0", "1", "2", "3", "4", "5", "6", "7", "8", "9">>

RECURSIVE Digits(_)
\* Number.prototype.toString for a non-negative integer
Digits(n) == IF n < 10 THEN <<DigitChars[n + 1]>>
             ELSE Digits(n \div 10) \o <<DigitChars[(n % 10) + 1]>>

\* `${v}`: the rendering of a primitive inside a template literal
Interpolate(v) ==
  CASE v.t = "num" -> Digits(v.n)
    [] v.t = "str" -> v.s
    [] v.t = "undef" -> <<"undefined">>
    [] v.t = "null" -> <<"null">>
    [] OTHER -> <<"[object Object]">>

RECURSIVE JSONstringify(_, _)
RECURSIVE JoinElems(_, _)
RECURSIVE JoinProps(_, _)

\* the elements of an array, comma separated; undefined prints as null
JoinElems(a, heap) ==
  IF a = <<>> THEN <<>>
  ELSE LET h == IF Head(a).t = "undef" THEN <<"null">> ELSE JSONstringify(Head(a), heap)
       IN IF Len(a) = 1 THEN h ELSE h \o <<",">> \o JoinElems(Tail(a), heap)

\* the properties of an object, comma separated; undefined ones are skipped
JoinProps(p, heap) ==
  LET kept == SelectSeq(p, LAMBDA x : x.val.t # "undef")
  IN IF kept = <<>> THEN <<>>
     ELSE LET h == <<"\"", Head(kept).k, "\"", ":">> \o JSONstringify(Head(kept).val, heap)
          IN IF Len(kept) = 1 THEN h ELSE h \o <<",">> \o JoinProps(Tail(kept), heap)

\* `${JSON.stringify(v)}`; heap gives the content of the arrays v refers to
JSONstringify(v, heap) ==
  CASE v.t = "num" -> Digits(v.n)
    [] v.t = "str" -> <<"\"">> \o v.s \o <<"\"">>
    [] v.t = "null" -> <<"null">>
    [] v.t = "undef" -> <<"undefined">>
    [] v.t = "arr" -> <<"[">> \o JoinElems(v.a, heap) \o <<"]">>
    [] v.t = "ref" -> <<"[">> \o JoinElems(heap[v.id], heap) \o <<"]">>
    [] v.t = "obj" -> <<"{">> \o JoinProps(v.p, heap) \o <<"}">>

\* new Date(t).toISOString() for clock value t
toISOString(t) == JStr(<<"T">> \o Digits(t) \o <<"Z">>)

----------------------------------------------------------------------------
(* core/block.js *)

difficulty == 2

\* the weight of one token: the value of a digit, 1 for any other token
TokenWeight(c) ==
  IF \E d \in 0..9 : DigitChars[d + 1] = c
  THEN CHOOSE d \in 0..9 : DigitChars[d + 1] = c
  ELSE 1

RECURSIVE TokenSum(_)
\* the sum of the weights of the tokens of s, by halves
TokenSum(s) ==
  IF s = <<>> THEN 0
  ELSE IF Len(s) = 1 THEN TokenWeight(s[1])
  ELSE LET h == Len(s) \div 2
       IN TokenSum(SubSeq(s, 1, h)) + TokenSum(SubSeq(s, h + 1, Len(s)))

\* the number of leading '0' digits of the hex digest of string s: a fixed
\* function of s, here one that sends consecutive nonces to different counts
LeadingZeros(s) == TokenSum(s) % 4

\* crypto.createHash("sha256").update(s).digest("hex"), collision free: the
\* digest is its run of leading zeros, then a non-zero digit, then digits that
\* determine s
sha256hex(s) ==
  [i \in 1..LeadingZeros(s) |-> "0"] \o <<"#">> \o s \o <<";">>

calculateHash(index, timestamp, data, previousHash, nonce, heap) ==
  LET payload == Interpolate(index) \o Interpolate(timestamp) \o JSONstringify(data, heap)
                 \o Interpolate(previousHash) \o Interpolate(nonce)
  IN JStr(sha256hex(payload))

\* new Block({...}): the constructor keeps a non-empty hash and computes an empty one
Block(index, timestamp, data, previousHash, nonce, hash, heap) ==
  [index |-> index, timestamp |-> timestamp, data |-> data,
   previousHash |-> previousHash, nonce |-> nonce,
   hash |-> IF hash = JStr(<<>>)
            THEN calculateHash(index, timestamp, data, previousHash, nonce, heap)
            ELSE hash]

GenesisTime == 0

\* what new Date() returns when a handler reads the clock; the program stores
\* its timestamps and never compares them
Times == {1}

genesis ==
  Block(JNum(0), toISOString(GenesisTime),
        JObj(<<Prop("message", JStr(<<"Genesis Block">>))>>),
        JStr(<<"0">>), JNum(0), JStr(<<>>), <<>>)

\* "0".repeat(n)
Repeat0(n) == [i \in 1..n |-> "0"]

\* String.prototype.startsWith
startsWith(s, prefix) ==
  /\ Len(s) >= Len(prefix)
  /\ \A i \in 1..Len(prefix) : s[i] = prefix[i]

\* previousBlock.index + 1: numeric addition, or concatenation when the index is a string
PlusOne(v) == IF v.t = "num" THEN JNum(v.n + 1) ELSE JStr(Interpolate(v) \o <<"1">>)

----------------------------------------------------------------------------
(* core/blockchain.js *)

\* a getter that returns the first block
latestBlock_First(c) == c[1]

latestBlock(c) == c[Len(c)]

\* a check of the last block only
isValid_LastOnly(c, heap) ==
  Len(c) >= 2 =>
    /\ c[Len(c)].previousHash = c[Len(c) - 1].hash
    /\ c[Len(c)].hash = calculateHash(c[Len(c)].index, c[Len(c)].timestamp, c[Len(c)].data,
                                      c[Len(c)].previousHash, c[Len(c)].nonce, heap)

\* a push at the front of the array
addBlock_Unshift(c, block) == <<block>> \o c

\* an assignment to the last slot in place of the push
addBlock_Overwrite(c, block) == [c EXCEPT ![Len(c)] = block]

\* addBlock, after mineBlock has returned block: this.chain.push(block)
addBlock(c, block) == Append(c, block)

\* no block: the value of a call that has not returned one
NoBlock == [index |-> JUndef]

\* a return of the block that was the latest before the push
addBlockReturn_Previous(c, block) == c[Len(c)]

\* addBlock: return block
addBlockReturn(c, block) == block

\* an isValid that recomputes the hashes and does not compare the links
isValid_HashOnly(c, heap) ==
  \A i \in 2..Len(c) :
    c[i].hash = calculateHash(c[i].index, c[i].timestamp, c[i].data,
                              c[i].previousHash, c[i].nonce, heap)

isValid(c, heap) ==
  \A i \in 2..Len(c) :
    /\ c[i].previousHash = c[i - 1].hash
    /\ c[i].hash = calculateHash(c[i].index, c[i].timestamp, c[i].data,
                                 c[i].previousHash, c[i].nonce, heap)

----------------------------------------------------------------------------
(* server.js: the intake of events *)

\* typeof v
typeof(v) ==
  CASE v.t = "num" -> "number"
    [] v.t = "str" -> "string"
    [] v.t = "undef" -> "undefined"
    [] OTHER -> "object"

\* body.k: the value of property k, undefined when the object has none
Get(v, k) ==
  IF v.t = "obj" /\ \E i \in 1..Len(v.p) : v.p[i].k = k
  THEN v.p[CHOOSE i \in 1..Len(v.p) : v.p[i].k = k].val
  ELSE JUndef

RECURSIVE TrimStart(_)
TrimStart(s) == IF s # <<>> /\ Head(s) = " " THEN TrimStart(Tail(s)) ELSE s

RECURSIVE TrimEnd(_)
TrimEnd(s) == IF s # <<>> /\ s[Len(s)] = " " THEN TrimEnd(SubSeq(s, 1, Len(s) - 1)) ELSE s

\* String.prototype.trim
trim(s) == TrimEnd(TrimStart(s))

\* v != null
NotNullish(v) == v.t # "null" /\ v.t # "undef"

\* a default taken for undefined only
Coalesce_UndefinedOnly(v, d) == IF v.t # "undef" THEN v ELSE d

\* v ?? d
Coalesce(v, d) == IF NotNullish(v) THEN v ELSE d

NoError == "none"

\* a validation that does not trim: a blank type or source passes
validateEvent_NoTrim(body) ==
  IF typeof(body) # "object" \/ body.t = "null"
    THEN "Request body must be a JSON object"
  ELSE IF typeof(Get(body, "type")) # "string" \/ Get(body, "type").s = <<>>
    THEN "Field \"type\" is required and must be a non-empty string"
  ELSE IF typeof(Get(body, "source")) # "string" \/ Get(body, "source").s = <<>>
    THEN "Field \"source\" is required and must be a non-empty string"
  ELSE IF NotNullish(Get(body, "severity")) /\ typeof(Get(body, "severity")) # "string"
    THEN "Field \"severity\", if provided, must be a string"
  ELSE IF NotNullish(Get(body, "message")) /\ typeof(Get(body, "message")) # "string"
    THEN "Field \"message\", if provided, must be a string"
  ELSE IF NotNullish(Get(body, "details"))
          /\ (typeof(Get(body, "details")) # "object" \/ Get(body, "details").t = "arr")
    THEN "Field \"details\", if provided, must be an object"
  ELSE NoError

validateEvent(body) ==
  IF typeof(body) # "object" \/ body.t = "null"
    THEN "Request body must be a JSON object"
  ELSE IF typeof(Get(body, "type")) # "string" \/ trim(Get(body, "type").s) = <<>>
    THEN "Field \"type\" is required and must be a non-empty string"
  ELSE IF typeof(Get(body, "source")) # "string" \/ trim(Get(body, "source").s) = <<>>
    THEN "Field \"source\" is required and must be a non-empty string"
  ELSE IF NotNullish(Get(body, "severity")) /\ typeof(Get(body, "severity")) # "string"
    THEN "Field \"severity\", if provided, must be a string"
  ELSE IF NotNullish(Get(body, "message")) /\ typeof(Get(body, "message")) # "string"
    THEN "Field \"message\", if provided, must be a string"
  ELSE IF NotNullish(Get(body, "details"))
          /\ (typeof(Get(body, "details")) # "object" \/ Get(body, "details").t = "arr")
    THEN "Field \"details\", if provided, must be an object"
  ELSE NoError

\* the event object POST /events builds from a valid body at time t
NewEvent(body, t) ==
  JObj(<<Prop("type", Get(body, "type")),
         Prop("source", Get(body, "source")),
         Prop("severity", Coalesce(Get(body, "severity"), JStr(<<"info">>))),
         Prop("message", Coalesce(Get(body, "message"), JStr(<<>>))),
         Prop("timestamp", toISOString(t)),
         Prop("details", Coalesce(Get(body, "details"), JObj(<<>>)))>>)

\* the request bodies the model posts to /events
Bodies ==
  { JObj(<<Prop("type", JStr(<<"login_failed">>)), Prop("source", JStr(<<"auth-service">>))>>),
    JObj(<<Prop("type", JStr(<<"port_scan">>)), Prop("source", JStr(<<"ids">>)),
           Prop("severity", JStr(<<"high">>)), Prop("details", JObj(<<Prop("port", JNum(22))>>))>>),
    JObj(<<Prop("type", JStr(<<" ">>)), Prop("source", JStr(<<"auth-service">>))>>) }

\* the request bodies of the intake cases: no body, null, an array; type and
\* source missing, not a string, empty, blank; severity, message and details
\* of the wrong type; and bodies that pass, with optional fields absent, null
\* and present
IntakeBodies ==
  LET t == Prop("type", JStr(<<"login_failed">>))
      s == Prop("source", JStr(<<"auth-service">>))
  IN Bodies \cup
     { JUndef, JNull, JArr(<<>>),
       JObj(<<s>>),
       JObj(<<Prop("type", JNum(5)), s>>),
       JObj(<<Prop("type", JStr(<<>>)), s>>),
       JObj(<<t>>),
       JObj(<<t, Prop("source", JNum(7))>>),
       JObj(<<t, Prop("source", JStr(<<>>))>>),
       JObj(<<t, Prop("source", JStr(<<" ", " ">>))>>),
       JObj(<<t, s, Prop("severity", JNum(3))>>),
       JObj(<<t, s, Prop("message", JObj(<<>>))>>),
       JObj(<<t, s, Prop("details", JStr(<<"x">>))>>),
       JObj(<<t, s, Prop("details", JArr(<<JNum(1)>>))>>),
       JObj(<<t, s, Prop("severity", JNull), Prop("message", JNull), Prop("details", JNull)>>),
       JObj(<<t, s, Prop("severity", JStr(<<"critical">>)), Prop("message", JStr(<<"3 attempts">>))>>) }

\* the routes of the requests the model sends
Routes == {"POST /events", "POST /mine"}

\* an assignment in place of the push
Push_Overwrite(heap, id, e) == [heap EXCEPT ![id] = <<e>>]

\* pendingEvents.push(e) on the array the variable is bound to
Push(heap, id, e) == [heap EXCEPT ![id] = Append(@, e)]

NoTamper == [block |-> 0, field |-> "none"]
NoMine == [caller |-> "none"]

\* res.status(status).json(json), answering request op with body req
Response(op, status, req, json) == [op |-> op, status |-> status, req |-> req, json |-> json]

\* { error }
ErrorJson(error) == JObj(<<Prop("error", JStr(<<error>>))>>)

\* { status: "queued", event }
QueuedJson(event) == JObj(<<Prop("status", JStr(<<"queued">>)), Prop("event", event)>>)

NoResponse == Response("none", 0, JUndef, JUndef)
NoPoll == [agent |-> "none", ok |-> FALSE, earlier |-> {}, run |-> <<>>]

\* a seal with the empty-queue check left out
QueueIsEmpty_Never == FALSE

\* pendingEvents.length === 0
QueueIsEmpty == Len(arrays[pendingEvents]) = 0

\* a mining loop that yields to the event loop between passes
Idle_WhileMining == TRUE

\* the thread is free: Block.mineBlock is a synchronous loop, so no handler
\* starts while one mines
Idle == pc = "idle"

----------------------------------------------------------------------------
(* The initial state: a new Blockchain, an empty queue *)

Init ==
  /\ chain = <<genesis>>
  /\ arrays = << <<>> >>
  /\ pendingEvents = 1
  /\ lastFileHashes = <<>>
  /\ lastListeningPorts = <<>>
  /\ lastAccounts = [users |-> <<>>, admins |-> <<>>]
  /\ poll = NoPoll
  /\ modules = [lastFileHashes |-> <<>>, lastListeningPorts |-> <<>>,
                lastAccounts |-> [users |-> <<>>, admins |-> <<>>], emitted |-> <<>>]
  /\ inbox = <<>>
  /\ pc = "idle"
  /\ mine = NoMine
  /\ last = NoResponse
  /\ returned = NoBlock
  /\ accepted = <<>>
  /\ oob = NoTamper

----------------------------------------------------------------------------
(* The environment: requests arrive *)

\* the requests of the inbox that post an event
Posting(q) == SelectSeq(q, LAMBDA r : r = "POST /events")

\* a request reaches the server; it waits until the thread is free
Receive ==
  /\ Len(inbox) < MaxEvents
  /\ \E r \in Routes :
       /\ r = "POST /events" => Len(accepted) + Len(Posting(inbox)) < MaxEvents
       /\ inbox' = Append(inbox, r)
  /\ UNCHANGED <<agentVars, oob, chain, arrays, pendingEvents, pc, mine, last, returned, accepted>>

----------------------------------------------------------------------------
(* server.js: the handlers. A handler runs when the thread is idle and runs *)
(* to its end before another one starts.                                   *)

\* app.post("/events", ...), for a request whose body is one of bodies
PostEventsFrom(bodies) ==
  /\ Idle
  /\ inbox # <<>>
  /\ Head(inbox) = "POST /events"
  /\ inbox' = Tail(inbox)
  /\ \E body \in bodies :
     LET error == validateEvent(body)
     IN IF error # NoError
        THEN /\ last' = Response("POST /events", 400, body, ErrorJson(error))
             /\ UNCHANGED <<arrays, accepted>>
        ELSE \E now \in Times :
             /\ arrays' = Push(arrays, pendingEvents, NewEvent(body, now))
             /\ accepted' = Append(accepted, NewEvent(body, now))
             /\ last' = Response("POST /events", 202, body, QueuedJson(NewEvent(body, now)))
  /\ UNCHANGED <<agentVars, oob, chain, pendingEvents, pc, mine, returned>>

PostEvents == PostEventsFrom(Bodies)

----------------------------------------------------------------------------
(* server.js: the network agent *)

Entry(k, v) == [k |-> k, v |-> v]

\* Map.prototype.has
Has(m, k) == \E i \in 1..Len(m) : m[i].k = k

\* Array.from(m.values())
Values(m) == [i \in 1..Len(m) |-> m[i].v]

\* Map.prototype.get
MapGet(m, k) == IF Has(m, k) THEN m[CHOOSE i \in 1..Len(m) : m[i].k = k].v ELSE JUndef

\* Map.prototype.set: a new key goes last, a known key keeps its place
MapSet(m, k, v) ==
  IF Has(m, k) THEN [i \in 1..Len(m) |-> IF m[i].k = k THEN Entry(k, v) ELSE m[i]]
  ELSE Append(m, Entry(k, v))

\* one value of the Map getCurrentListeningPorts builds
Listener(proto, port, pid) ==
  Entry(proto \o ":0.0.0.0:" \o port,
        JObj(<<Prop("proto", JStr(<<proto>>)), Prop("localAddress", JStr(<<"0.0.0.0">>)),
               Prop("port", JStr(<<port>>)), Prop("pid", JStr(<<pid>>))>>))

\* what getCurrentListeningPorts can return: null when netstat fails, or a Map
NetSnapshots ==
  { [ok |-> FALSE, m |-> <<>>],
    [ok |-> TRUE, m |-> <<Listener("TCP", "80", "4")>>],
    [ok |-> TRUE, m |-> <<Listener("TCP", "80", "4"), Listener("UDP", "53", "8")>>] }

AgentEvent(type, source, severity, message, t, details) ==
  JObj(<<Prop("type", JStr(<<type>>)), Prop("source", JStr(<<source>>)),
         Prop("severity", JStr(<<severity>>)), Prop("message", JStr(<<message>>)),
         Prop("timestamp", toISOString(t)), Prop("details", details)>>)

\* runNetworkCheck with the two lists of the change event taken for each other
NetworkEvents_Swapped(current, baseline, t) ==
  LET newListening == SelectSeq(baseline, LAMBDA e : ~Has(current.m, e.k))
      closed == SelectSeq(current.m, LAMBDA e : ~Has(baseline, e.k))
  IN IF ~current.ok
       THEN <<AgentEvent("network_check_error", "net-agent", "high",
                         "Failed to read current listening ports", t, JObj(<<>>))>>
     ELSE IF Len(baseline) = 0
       THEN <<AgentEvent("network_baseline", "net-agent", "info",
                         "Initial listening ports baseline recorded", t,
                         JObj(<<Prop("listening", JArr(Values(current.m)))>>))>>
     ELSE IF newListening = <<>> /\ closed = <<>>
       THEN <<>>
     ELSE <<AgentEvent("network_port_change", "net-agent", "medium",
                       "Changes in listening network ports detected", t,
                       JObj(<<Prop("newListening", JArr(Values(newListening))),
                              Prop("closed", JArr(Values(closed)))>>))>>

\* the events one runNetworkCheck pushes, given what the snapshot returned
NetworkEvents(current, baseline, t) ==
  LET newListening == SelectSeq(current.m, LAMBDA e : ~Has(baseline, e.k))
      closed == SelectSeq(baseline, LAMBDA e : ~Has(current.m, e.k))
  IN IF ~current.ok
       THEN <<AgentEvent("network_check_error", "net-agent", "high",
                         "Failed to read current listening ports", t, JObj(<<>>))>>
     ELSE IF Len(baseline) = 0
       THEN <<AgentEvent("network_baseline", "net-agent", "info",
                         "Initial listening ports baseline recorded", t,
                         JObj(<<Prop("listening", JArr(Values(current.m)))>>))>>
     ELSE IF newListening = <<>> /\ closed = <<>>
       THEN <<>>
     ELSE <<AgentEvent("network_port_change", "net-agent", "medium",
                       "Changes in listening network ports detected", t,
                       JObj(<<Prop("newListening", JArr(Values(newListening))),
                              Prop("closed", JArr(Values(closed)))>>))>>

\* runNetworkCheck with a baseline that a failed snapshot clears
NetworkBaseline_ClearOnError(current, baseline) ==
  IF ~current.ok THEN <<>>
  ELSE IF Len(baseline) = 0 THEN current.m
  ELSE IF /\ \A i \in 1..Len(current.m) : Has(baseline, current.m[i].k)
          /\ \A i \in 1..Len(baseline) : Has(current.m, baseline[i].k)
    THEN baseline
  ELSE current.m

\* lastListeningPorts after one runNetworkCheck
NetworkBaseline(current, baseline) ==
  IF ~current.ok THEN baseline
  ELSE IF Len(baseline) = 0 THEN current.m
  ELSE IF /\ \A i \in 1..Len(current.m) : Has(baseline, current.m[i].k)
          /\ \A i \in 1..Len(baseline) : Has(current.m, baseline[i].k)
    THEN baseline
  ELSE current.m

\* an agent whose events never reach the queue
PushAll_Lost(heap, id, es) == heap

\* an agent that puts its events at the head of the queue
PushAll_Front(heap, id, es) == [heap EXCEPT ![id] = es \o @]

\* pendingEvents.push(e) for each event of es, in order
PushAll(heap, id, es) == [heap EXCEPT ![id] = @ \o es]

----------------------------------------------------------------------------
(* agents/: the agent modules, which own their baselines and hand their     *)
(* events to the emitEvent they are called with                             *)

\* emitEvent(e), bound to appending to a queue
emitEvent(m, e) == [m EXCEPT !.emitted = Append(@, e)]

RECURSIVE SetEach(_, _)
\* for (const [key, value] of entries) map.set(key, value)
SetEach(entries, map) ==
  IF entries = <<>> THEN map
  ELSE SetEach(Tail(entries), MapSet(map, Head(entries).k, Head(entries).v))

RECURSIVE ValuesNotIn(_, _)
\* for (const [key, value] of entries) if (!other.has(key)) list.push(value)
ValuesNotIn(entries, other) ==
  IF entries = <<>> THEN <<>>
  ELSE (IF Has(other, Head(entries).k) THEN <<>> ELSE <<Head(entries).v>>)
       \o ValuesNotIn(Tail(entries), other)

\* agents/networkAgent.js runNetworkCheck(emitEvent), given what its
\* getCurrentListeningPorts returned
runNetworkCheck(m, current, t) ==
  IF ~current.ok
    THEN emitEvent(m, AgentEvent("network_check_error", "net-agent", "high",
                                 "Failed to read current listening ports", t, JObj(<<>>)))
  ELSE IF Len(m.lastListeningPorts) = 0
    THEN [emitEvent(m, AgentEvent("network_baseline", "net-agent", "info",
                                  "Initial listening ports baseline recorded", t,
                                  JObj(<<Prop("listening", JArr(Values(current.m)))>>)))
            EXCEPT !.lastListeningPorts = SetEach(current.m, @)]
  ELSE LET newListening == ValuesNotIn(current.m, m.lastListeningPorts)
           closed == ValuesNotIn(m.lastListeningPorts, current.m)
       IN IF Len(newListening) = 0 /\ Len(closed) = 0 THEN m
          ELSE [emitEvent(m, AgentEvent("network_port_change", "net-agent", "medium",
                                        "Changes in listening network ports detected", t,
                                        JObj(<<Prop("newListening", JArr(newListening)),
                                               Prop("closed", JArr(closed))>>)))
                  EXCEPT !.lastListeningPorts = SetEach(current.m, <<>>)]

\* the body of runNetworkCheck, given what getCurrentListeningPorts returned
NetworkCheck(current, now) ==
  /\ arrays' = PushAll(arrays, pendingEvents, NetworkEvents(current, lastListeningPorts, now))
  /\ accepted' = accepted \o NetworkEvents(current, lastListeningPorts, now)
  /\ lastListeningPorts' = NetworkBaseline(current, lastListeningPorts)
  /\ modules' = runNetworkCheck(modules, current, now)
  /\ UNCHANGED <<lastFileHashes, lastAccounts>>
  /\ UNCHANGED <<oob, chain, pendingEvents, inbox, pc, mine, last, returned>>

\* runNetworkCheck, on its timer
RunNetworkCheck ==
  /\ Idle
  /\ Len(accepted) + Len(Posting(inbox)) < MaxEvents
  /\ \E current \in NetSnapshots, now \in Times : NetworkCheck(current, now)
  /\ UNCHANGED poll

----------------------------------------------------------------------------
(* server.js: sealing the queue into a block *)

\* an index copied from the previous block
NextIndex_Same(previousBlock) == previousBlock.index

\* Block.mineBlock, up to its loop: index, timestamp, nonce = 0, hash = ""
NextIndex(previousBlock) == PlusOne(previousBlock.index)

\* a mineBlock whose nonce starts at 1, so that the first nonce tried is 2
MineStart_FromOne(caller, now) ==
  [caller |-> caller,
   previousBlock |-> latestBlock(chain),
   data |-> JRef(pendingEvents),
   index |-> NextIndex(latestBlock(chain)),
   timestamp |-> toISOString(now),
   nonce |-> 1,
   hash |-> JStr(<<>>)]

MineStart(caller, now) ==
  [caller |-> caller,
   previousBlock |-> latestBlock(chain),
   data |-> JRef(pendingEvents),
   index |-> NextIndex(latestBlock(chain)),
   timestamp |-> toISOString(now),
   nonce |-> 0,
   hash |-> JStr(<<>>)]

\* minePendingEventsIfAny, on its timer: the empty-queue return, or the call of addBlock
TimerMine ==
  /\ Idle
  /\ IF QueueIsEmpty
     THEN UNCHANGED <<pc, mine>>
     ELSE /\ pc' = "mining"
          /\ \E now \in Times : mine' = MineStart("timer", now)
  /\ UNCHANGED <<agentVars, oob, chain, arrays, pendingEvents, inbox, last, returned, accepted>>

\* app.post("/mine", ...): the empty-queue error, or the call of addBlock
PostMine ==
  /\ Idle
  /\ inbox # <<>>
  /\ Head(inbox) = "POST /mine"
  /\ inbox' = Tail(inbox)
  /\ IF QueueIsEmpty
     THEN /\ last' = Response("POST /mine", 400, JUndef, ErrorJson("No pending events to mine"))
          /\ UNCHANGED <<pc, mine>>
     ELSE /\ pc' = "mining"
          /\ \E now \in Times : mine' = MineStart("POST /mine", now)
          /\ UNCHANGED last
  /\ UNCHANGED <<agentVars, oob, chain, arrays, pendingEvents, returned, accepted>>

\* a prefix one character short
Target_OneShort == Repeat0(difficulty - 1)

\* the prefix a mined hash must start with
Target == Repeat0(difficulty)

\* the condition of the do-while loop of mineBlock, after at least one pass
LoopAgain(m) == m.nonce = 0 \/ ~startsWith(m.hash.s, Target)

\* one pass of the loop: nonce += 1; hash = calculateHash(...)
MineStep ==
  /\ pc = "mining"
  /\ LoopAgain(mine)
  /\ mine' = [mine EXCEPT
                !.nonce = @ + 1,
                !.hash = calculateHash(mine.index, mine.timestamp, mine.data,
                                       mine.previousBlock.hash, JNum(mine.nonce + 1), arrays)]
  /\ UNCHANGED <<agentVars, oob, chain, arrays, pendingEvents, inbox, pc, last, returned, accepted>>

\* a block linked to the hash before the previous one
MinedBlock_StaleLink(m) ==
  Block(m.index, m.timestamp, m.data, m.previousBlock.previousHash, JNum(m.nonce), m.hash, arrays)

\* the block mineBlock returns
MinedBlock(m) ==
  Block(m.index, m.timestamp, m.data, m.previousBlock.hash, JNum(m.nonce), m.hash, arrays)

\* a handler that keeps the sealed array as the queue
FreshQueue_Kept(heap) == heap

\* a handler that empties the sealed array in place and keeps it as the queue
FreshQueue_Emptied(heap) == [heap EXCEPT ![Len(heap)] = <<>>]

\* pendingEvents = []: the variable is bound to a new, empty array
FreshQueue(heap) == Append(heap, <<>>)

\* the loop ends: mineBlock returns, addBlock pushes the block, the handler
\* empties the queue and answers
SealFinish ==
  /\ pc = "mining"
  /\ ~LoopAgain(mine)
  /\ chain' = addBlock(chain, MinedBlock(mine))
  /\ returned' = addBlockReturn(chain, MinedBlock(mine))
  /\ arrays' = FreshQueue(arrays)
  /\ pendingEvents' = Len(arrays')
  /\ last' = IF mine.caller = "timer" THEN last
             ELSE Response("POST /mine", 201, JUndef, returned')
  /\ pc' = "idle"
  /\ mine' = NoMine
  /\ UNCHANGED <<agentVars, oob, inbox, accepted>>

Next ==
  \/ Receive
  \/ PostEvents
  \/ RunNetworkCheck
  \/ TimerMine
  \/ PostMine
  \/ MineStep
  \/ SealFinish

Spec == Init /\ [][Next]_vars

----------------------------------------------------------------------------
(* server.js: the file agent *)

\* one file of the scan: its path and what computeFileHash returns for it,
\* the digest or null when the file cannot be read
File(path, hash) == [path |-> path, hash |-> hash]

\* what collectFilesUnderRoot and computeFileHash can find under the root
FileScans ==
  { <<File("C:\\a.txt", JStr(<<"h1">>))>>,
    <<File("C:\\a.txt", JStr(<<"h2">>))>>,
    <<File("C:\\a.txt", JStr(<<"h1">>)), File("C:\\b.txt", JStr(<<"h1">>))>>,
    <<File("C:\\a.txt", JNull)>>,
    <<File("C:\\a.txt", JNull), File("C:\\b.txt", JStr(<<"h1">>))>> }

\* an event of the file agent; its message ends with the path
FileEvent(type, severity, text, path, t, details) ==
  JObj(<<Prop("type", JStr(<<type>>)), Prop("source", JStr(<<"file-agent">>)),
         Prop("severity", JStr(<<severity>>)), Prop("message", JStr(<<text, path>>)),
         Prop("timestamp", toISOString(t)), Prop("details", details)>>)

\* a loop that reports a file it has no digest for as a changed file
FileEventsOf_NewIsChange(f, previousHash, t) ==
  IF f.hash = JNull
    THEN <<FileEvent("file_integrity_error", "high", "Unable to read file: ", f.path, t,
                     JObj(<<Prop("path", JStr(<<f.path>>))>>))>>
  ELSE IF previousHash = f.hash
    THEN <<>>
  ELSE <<FileEvent("file_integrity_change", "high", "File content changed: ", f.path, t,
                   JObj(<<Prop("path", JStr(<<f.path>>)), Prop("oldHash", previousHash),
                          Prop("newHash", f.hash)>>))>>

\* the event runFileIntegrityCheck pushes for one file, none when the hash is the known one
FileEventsOf(f, previousHash, t) ==
  IF f.hash = JNull
    THEN <<FileEvent("file_integrity_error", "high", "Unable to read file: ", f.path, t,
                     JObj(<<Prop("path", JStr(<<f.path>>))>>))>>
  ELSE IF previousHash = f.hash
    THEN <<>>
  ELSE IF previousHash = JUndef
    THEN <<FileEvent("file_integrity_baseline", "info", "Baseline hash recorded for ", f.path, t,
                     JObj(<<Prop("path", JStr(<<f.path>>)), Prop("hash", f.hash)>>))>>
  ELSE <<FileEvent("file_integrity_change", "high", "File content changed: ", f.path, t,
                   JObj(<<Prop("path", JStr(<<f.path>>)), Prop("oldHash", previousHash),
                          Prop("newHash", f.hash)>>))>>

RECURSIVE FileBaseline_KeepOld(_, _)
\* runFileIntegrityCheck with a baseline that records a path once and keeps its first digest
FileBaseline_KeepOld(files, baseline) ==
  IF files = <<>> THEN baseline
  ELSE IF Head(files).hash = JNull \/ Has(baseline, Head(files).path)
    THEN FileBaseline_KeepOld(Tail(files), baseline)
  ELSE FileBaseline_KeepOld(Tail(files), MapSet(baseline, Head(files).path, Head(files).hash))

RECURSIVE FileBaseline_StopAtError(_, _)
\* a loop over files that ends at the first file it cannot read
FileBaseline_StopAtError(files, baseline) ==
  IF files = <<>> THEN baseline
  ELSE IF Head(files).hash = JNull THEN baseline
  ELSE FileBaseline_StopAtError(Tail(files), MapSet(baseline, Head(files).path, Head(files).hash))

\* a baseline that is replaced by the scan: a path the scan lacks is forgotten
FileBaseline_Replaced(files, baseline) ==
  LET readable == SelectSeq(files, LAMBDA f : f.hash # JNull)
  IN [i \in 1..Len(readable) |-> Entry(readable[i].path, readable[i].hash)]

RECURSIVE FileBaseline(_, _)
\* lastFileHashes after the loop over files: set for every readable file
FileBaseline(files, baseline) ==
  IF files = <<>> THEN baseline
  ELSE IF Head(files).hash = JNull THEN FileBaseline(Tail(files), baseline)
  ELSE FileBaseline(Tail(files), MapSet(baseline, Head(files).path, Head(files).hash))

\* a loop that reports the files of the baseline that the scan no longer finds
FileEvents_Removed(files, baseline, t) ==
  LET gone == SelectSeq(baseline, LAMBDA e : \A i \in 1..Len(files) : files[i].path # e.k)
  IN [i \in 1..Len(gone) |->
        FileEvent("file_integrity_removed", "high", "File removed: ", gone[i].k, t,
                  JObj(<<Prop("path", JStr(<<gone[i].k>>))>>))]

RECURSIVE FileEvents(_, _, _)
\* the events the loop over files pushes, in the order of the scan
FileEvents(files, baseline, t) ==
  IF files = <<>> THEN <<>>
  ELSE FileEventsOf(Head(files), MapGet(baseline, Head(files).path), t)
       \o FileEvents(Tail(files), FileBaseline(<<Head(files)>>, baseline), t)

\* one turn of the loop over files of the file agent module
FileTurn(m, f, t) ==
  LET previousHash == MapGet(m.lastFileHashes, f.path)
  IN IF f.hash = JNull
       THEN emitEvent(m, FileEvent("file_integrity_error", "high", "Unable to read file: ",
                                   f.path, t, JObj(<<Prop("path", JStr(<<f.path>>))>>)))
     ELSE IF previousHash = f.hash THEN m
     ELSE [(IF previousHash = JUndef
            THEN emitEvent(m, FileEvent("file_integrity_baseline", "info",
                                        "Baseline hash recorded for ", f.path, t,
                                        JObj(<<Prop("path", JStr(<<f.path>>)),
                                               Prop("hash", f.hash)>>)))
            ELSE emitEvent(m, FileEvent("file_integrity_change", "high",
                                        "File content changed: ", f.path, t,
                                        JObj(<<Prop("path", JStr(<<f.path>>)),
                                               Prop("oldHash", previousHash),
                                               Prop("newHash", f.hash)>>))))
             EXCEPT !.lastFileHashes = MapSet(@, f.path, f.hash)]

RECURSIVE runFileIntegrityCheck(_, _, _)
\* the file agent module, runFileIntegrityCheck(emitEvent), given the files
\* found and their hashes
runFileIntegrityCheck(m, files, t) ==
  IF files = <<>> THEN m
  ELSE runFileIntegrityCheck(FileTurn(m, Head(files), t), Tail(files), t)

\* the body of runFileIntegrityCheck, given the files found and their hashes
FileIntegrityCheck(files, now) ==
  /\ arrays' = PushAll(arrays, pendingEvents, FileEvents(files, lastFileHashes, now))
  /\ accepted' = accepted \o FileEvents(files, lastFileHashes, now)
  /\ lastFileHashes' = FileBaseline(files, lastFileHashes)
  /\ modules' = runFileIntegrityCheck(modules, files, now)
  /\ UNCHANGED <<lastListeningPorts, lastAccounts>>
  /\ UNCHANGED <<oob, chain, pendingEvents, inbox, pc, mine, last, returned>>

----------------------------------------------------------------------------
(* server.js: the account agent *)

\* what getLocalUsers or getLocalAdmins returns: null, or the Set of names
Failed == [ok |-> FALSE, m |-> <<>>]
Names(m) == [ok |-> TRUE, m |-> m]

\* Set.prototype.has
In(x, set) == \E i \in 1..Len(set) : set[i] = x

\* Array.from(set), as a JSON array of strings
NameArray(set) == JArr([i \in 1..Len(set) |-> JStr(<<set[i]>>)])

\* what one run of "net user" and "net localgroup administrators" can give
AccountSnapshots ==
  { [users |-> Failed, admins |-> Names(<<"Administrator">>)],
    [users |-> Names(<<"Administrator", "Guest">>), admins |-> Failed],
    [users |-> Names(<<"Administrator", "Guest">>), admins |-> Names(<<"Administrator">>)],
    [users |-> Names(<<"Administrator", "Guest", "eve">>), admins |-> Names(<<"Administrator">>)],
    [users |-> Names(<<"Administrator", "Guest", "eve">>),
     admins |-> Names(<<"Administrator", "eve">>)] }

\* the events one runAccountCheck pushes
AccountEvents(current, baseline, t) ==
  LET users == current.users.m
      admins == current.admins.m
      newUsers == SelectSeq(users, LAMBDA u : ~In(u, baseline.users))
      removedUsers == SelectSeq(baseline.users, LAMBDA u : ~In(u, users))
      newAdmins == SelectSeq(admins, LAMBDA a : ~In(a, baseline.admins))
      removedAdmins == SelectSeq(baseline.admins, LAMBDA a : ~In(a, admins))
  IN IF ~current.users.ok \/ ~current.admins.ok
       THEN <<AgentEvent("account_check_error", "identity-agent", "high",
                         "Failed to read local users or administrators", t, JObj(<<>>))>>
     ELSE IF Len(baseline.users) = 0 /\ Len(baseline.admins) = 0
       THEN <<AgentEvent("account_baseline", "identity-agent", "info",
                         "Initial local accounts baseline recorded", t,
                         JObj(<<Prop("users", NameArray(users)),
                                Prop("admins", NameArray(admins))>>))>>
     ELSE IF newUsers = <<>> /\ removedUsers = <<>> /\ newAdmins = <<>> /\ removedAdmins = <<>>
       THEN <<>>
     ELSE <<AgentEvent("account_membership_change", "identity-agent", "high",
                       "Changes in local users or administrators detected", t,
                       JObj(<<Prop("newUsers", NameArray(newUsers)),
                              Prop("removedUsers", NameArray(removedUsers)),
                              Prop("newAdmins", NameArray(newAdmins)),
                              Prop("removedAdmins", NameArray(removedAdmins))>>))>>

\* a runAccountCheck that replaces the users of the baseline and keeps its administrators
AccountBaseline_UsersOnly(current, baseline) ==
  IF ~current.users.ok \/ ~current.admins.ok THEN baseline
  ELSE IF Len(baseline.users) = 0 /\ Len(baseline.admins) = 0
    THEN [users |-> current.users.m, admins |-> current.admins.m]
  ELSE [users |-> current.users.m, admins |-> baseline.admins]

\* lastAccounts after one runAccountCheck
AccountBaseline(current, baseline) ==
  IF ~current.users.ok \/ ~current.admins.ok THEN baseline
  ELSE IF Len(baseline.users) = 0 /\ Len(baseline.admins) = 0
    THEN [users |-> current.users.m, admins |-> current.admins.m]
  ELSE IF /\ \A i \in 1..Len(current.users.m) : In(current.users.m[i], baseline.users)
          /\ \A i \in 1..Len(baseline.users) : In(baseline.users[i], current.users.m)
          /\ \A i \in 1..Len(current.admins.m) : In(current.admins.m[i], baseline.admins)
          /\ \A i \in 1..Len(baseline.admins) : In(baseline.admins[i], current.admins.m)
    THEN baseline
  ELSE [users |-> current.users.m, admins |-> current.admins.m]

RECURSIVE NewSet(_, _)
\* new Set(names): each name added once, in order
NewSet(names, set) ==
  IF names = <<>> THEN set
  ELSE NewSet(Tail(names), IF In(Head(names), set) THEN set ELSE Append(set, Head(names)))

RECURSIVE NamesNotIn(_, _)
\* for (const u of names) if (!other.has(u)) list.push(u)
NamesNotIn(names, other) ==
  IF names = <<>> THEN <<>>
  ELSE (IF In(Head(names), other) THEN <<>> ELSE <<Head(names)>>)
       \o NamesNotIn(Tail(names), other)

\* the account agent module, runAccountCheck(emitEvent), given what its
\* getLocalUsers and getLocalAdmins returned
runAccountCheck(m, current, t) ==
  IF ~current.users.ok \/ ~current.admins.ok
    THEN emitEvent(m, AgentEvent("account_check_error", "identity-agent", "high",
                                 "Failed to read local users or administrators", t, JObj(<<>>)))
  ELSE IF Len(m.lastAccounts.users) = 0 /\ Len(m.lastAccounts.admins) = 0
    THEN [emitEvent(m, AgentEvent("account_baseline", "identity-agent", "info",
                                  "Initial local accounts baseline recorded", t,
                                  JObj(<<Prop("users", NameArray(current.users.m)),
                                         Prop("admins", NameArray(current.admins.m))>>)))
            EXCEPT !.lastAccounts = [users |-> NewSet(current.users.m, <<>>),
                                     admins |-> NewSet(current.admins.m, <<>>)]]
  ELSE LET newUsers == NamesNotIn(current.users.m, m.lastAccounts.users)
           removedUsers == NamesNotIn(m.lastAccounts.users, current.users.m)
           newAdmins == NamesNotIn(current.admins.m, m.lastAccounts.admins)
           removedAdmins == NamesNotIn(m.lastAccounts.admins, current.admins.m)
       IN IF /\ Len(newUsers) = 0
             /\ Len(removedUsers) = 0
             /\ Len(newAdmins) = 0
             /\ Len(removedAdmins) = 0
            THEN m
          ELSE [emitEvent(m, AgentEvent("account_membership_change", "identity-agent", "high",
                                        "Changes in local users or administrators detected", t,
                                        JObj(<<Prop("newUsers", NameArray(newUsers)),
                                               Prop("removedUsers", NameArray(removedUsers)),
                                               Prop("newAdmins", NameArray(newAdmins)),
                                               Prop("removedAdmins", NameArray(removedAdmins))>>)))
                  EXCEPT !.lastAccounts = [users |-> NewSet(current.users.m, <<>>),
                                           admins |-> NewSet(current.admins.m, <<>>)]]

\* the body of runAccountCheck, given what the two commands returned
AccountCheck(current, now) ==
  /\ arrays' = PushAll(arrays, pendingEvents, AccountEvents(current, lastAccounts, now))
  /\ accepted' = accepted \o AccountEvents(current, lastAccounts, now)
  /\ lastAccounts' = AccountBaseline(current, lastAccounts)
  /\ modules' = runAccountCheck(modules, current, now)
  /\ UNCHANGED <<lastFileHashes, lastListeningPorts>>
  /\ UNCHANGED <<oob, chain, pendingEvents, inbox, pc, mine, last, returned>>

----------------------------------------------------------------------------
(* server.js: the three agents on their timers, each poll with a record of  *)
(* what it read, the baseline it found and the events it pushed            *)

\* what getCurrentListeningPorts can return, with a socket that changes owner
\* and a host with no listening socket
PortSnapshots ==
  NetSnapshots \cup { [ok |-> TRUE, m |-> <<Listener("TCP", "80", "9")>>],
                      [ok |-> TRUE, m |-> <<>>] }

\* the agents that have had a successful poll, up to and with poll p
Succeeded(p) == p.earlier \cup (IF p.ok THEN {p.agent} ELSE {})

\* the longest run of polls that is recorded
MaxRun == 4

\* the snapshots an agent has read in a row since process start: its first
\* successful poll, then its next polls for as long as they succeed and no
\* other agent polls; empty when this poll is not one of such a run
Run(agent, ok, current) ==
  IF ok /\ agent \notin Succeeded(poll) THEN <<current>>
  ELSE IF ok /\ poll.agent = agent /\ poll.run # <<>> /\ Len(poll.run) < MaxRun
    THEN Append(poll.run, current)
  ELSE <<>>

\* the record of one poll; earlier: the agents that had succeeded before it
Polled(agent, ok, current, before, emitted) ==
  [agent |-> agent, ok |-> ok, current |-> current, before |-> before, emitted |-> emitted,
   earlier |-> Succeeded(poll), run |-> Run(agent, ok, current)]

\* setInterval(runFileIntegrityCheck, ...)
PollFiles ==
  /\ Idle
  /\ \E files \in FileScans, now \in Times :
       /\ Len(accepted) + Len(FileEvents(files, lastFileHashes, now)) <= MaxEvents
       /\ FileIntegrityCheck(files, now)
       /\ poll' = Polled("file-agent", \A i \in 1..Len(files) : files[i].hash # JNull,
                         files, lastFileHashes, FileEvents(files, lastFileHashes, now))

\* setInterval(runNetworkCheck, ...)
PollNetwork ==
  /\ Idle
  /\ \E current \in PortSnapshots, now \in Times :
       /\ Len(accepted) + Len(NetworkEvents(current, lastListeningPorts, now)) <= MaxEvents
       /\ NetworkCheck(current, now)
       /\ poll' = Polled("net-agent", current.ok, current, lastListeningPorts,
                         NetworkEvents(current, lastListeningPorts, now))

\* setInterval(runAccountCheck, ...)
PollAccounts ==
  /\ Idle
  /\ \E current \in AccountSnapshots, now \in Times :
       /\ Len(accepted) + Len(AccountEvents(current, lastAccounts, now)) <= MaxEvents
       /\ AccountCheck(current, now)
       /\ poll' = Polled("identity-agent", current.users.ok /\ current.admins.ok, current,
                         lastAccounts, AccountEvents(current, lastAccounts, now))

NextAgents ==
  \/ PollFiles
  \/ PollNetwork
  \/ PollAccounts

SpecAgents == Init /\ [][NextAgents]_vars

----------------------------------------------------------------------------
(* server.js: the intake of events, for every kind of request body *)

PostEventsAny == PostEventsFrom(IntakeBodies)

NextIntake ==
  \/ Receive
  \/ PostEventsAny
  \/ PostMine
  \/ MineStep
  \/ SealFinish

SpecIntake == Init /\ [][NextIntake]_vars

----------------------------------------------------------------------------
(* server.js: the routes that read. A GET request is answered when the      *)
(* thread is idle; its handler writes nothing but the response.            *)

\* a handler that answers with JSON json and status 200
Answer(op, json) ==
  /\ Idle
  /\ last' = Response(op, 200, JUndef, json)
  /\ UNCHANGED <<agentVars, oob, chain, arrays, pendingEvents, inbox, pc, mine, returned, accepted>>

\* true and false as JSON values
JBool(b) == JStr(<<IF b THEN "true" ELSE "false">>)

\* app.get("/pending", ...)
GetPending ==
  Answer("GET /pending",
         JObj(<<Prop("count", JNum(Len(arrays[pendingEvents]))),
                Prop("events", JArr(arrays[pendingEvents]))>>))

\* app.get("/chain", ...)
GetChain ==
  Answer("GET /chain",
         JObj(<<Prop("length", JNum(Len(chain))), Prop("chain", JArr(chain))>>))

\* app.get("/verify", ...)
GetVerify ==
  Answer("GET /verify",
         JObj(<<Prop("valid", JBool(isValid(chain, arrays))), Prop("length", JNum(Len(chain)))>>))

\* app.get("/health", ...)
GetHealth ==
  Answer("GET /health",
         JObj(<<Prop("status", JStr(<<"ok">>)), Prop("valid", JBool(isValid(chain, arrays))),
                Prop("length", JNum(Len(chain)))>>))

\* the routes and the network agent
NextReads ==
  \/ Receive
  \/ PostEvents
  \/ RunNetworkCheck
  \/ PostMine
  \/ MineStep
  \/ SealFinish
  \/ GetPending
  \/ GetChain
  \/ GetVerify
  \/ GetHealth

SpecReads == Init /\ [][NextReads]_vars

----------------------------------------------------------------------------
(* A write from outside the program: one stored field of one sealed block  *)
(* is replaced by a different value, once                                  *)

Fields == {"index", "timestamp", "data", "previousHash", "nonce", "hash"}

\* values written over a field: another value of the same type; for the
\* numbers, the string with the same digits; for the payload, a new array of
\* the same events, each with one more property whose value is undefined
TamperValues(b, f) ==
  CASE f = "index" -> {JNum(7), JStr(Interpolate(b.index))}
    [] f = "timestamp" -> {JStr(<<"T", "9", "Z">>)}
    [] f = "data" ->
         {JObj(<<Prop("value", JNum(999))>>)}
         \cup (IF b.data.t = "ref"
                THEN {JArr([k \in 1..Len(arrays[b.data.id]) |->
                             JObj(arrays[b.data.id][k].p \o <<Prop("note", JUndef)>>)])}
                ELSE {})
    [] f = "previousHash" -> {JStr(<<"0">>)}
    [] f = "nonce" -> {JNum(b.nonce.n + 1), JStr(Interpolate(b.nonce))}
    [] f = "hash" -> {JStr(<<"0", "0", "#", ";">>)}

Tamper ==
  /\ Idle
  /\ oob = NoTamper
  /\ \E i \in 2..Len(chain), f \in Fields :
       \E v \in TamperValues(chain[i], f) :
         /\ v # chain[i][f]
         /\ chain' = [chain EXCEPT ![i][f] = v]
         /\ oob' = [block |-> i - 1, field |-> f]
  /\ UNCHANGED <<agentVars, arrays, pendingEvents, inbox, pc, mine, last, returned, accepted>>

NextTamper ==
  \/ Receive
  \/ PostEvents
  \/ PostMine
  \/ MineStep
  \/ SealFinish
  \/ Tamper

SpecTamper == Init /\ [][NextTamper]_vars

\* the same write, on the genesis block
TamperGenesis ==
  /\ Idle
  /\ oob = NoTamper
  /\ \E f \in Fields :
       \E v \in TamperValues(chain[1], f) :
         /\ v # chain[1][f]
         /\ chain' = [chain EXCEPT ![1][f] = v]
         /\ oob' = [block |-> 0, field |-> f]
  /\ UNCHANGED <<agentVars, arrays, pendingEvents, inbox, pc, mine, last, returned, accepted>>

NextTamperGenesis ==
  \/ Receive
  \/ PostEvents
  \/ PostMine
  \/ MineStep
  \/ SealFinish
  \/ TamperGenesis

SpecTamperGenesis == Init /\ [][NextTamperGenesis]_vars

----------------------------------------------------------------------------
(* Properties *)

\* the events waiting in the queue
Queue == arrays[pendingEvents]

\* the events of block b, when its data is an array of the heap
PayloadIn(b, heap) == IF b.data.t = "ref" THEN heap[b.data.id] ELSE <<>>
Payload(b) == PayloadIn(b, arrays)

RECURSIVE SealedUpTo(_)
\* the payloads of JS blocks 1..n-1, concatenated in chain order
SealedUpTo(n) == IF n < 2 THEN <<>> ELSE SealedUpTo(n - 1) \o Payload(chain[n])

Sealed == SealedUpTo(Len(chain))

\* the last block of chain c
LastOf(c) == c[Len(c)]

IsPrefix(a, b) == Len(a) <= Len(b) /\ SubSeq(b, 1, Len(a)) = a

\* the hash of block b, computed again from its stored fields
Recomputed(b) == calculateHash(b.index, b.timestamp, b.data, b.previousHash, b.nonce, arrays)

\* C1: with no write from outside, isValid() is true after every sequence of
\* addBlock calls: every block after the genesis block holds the hash of its
\* predecessor and the hash recomputed from its own fields.
C1_ChainStaysValid ==
  /\ isValid(chain, arrays)
  /\ \A i \in 2..Len(chain) :
       /\ chain[i].previousHash = chain[i - 1].hash
       /\ chain[i].hash = Recomputed(chain[i])

C1_Witness == Len(chain) >= 3 /\ pc = "idle"

\* C2: replacing one stored field of a block after the genesis block by a
\* different value makes isValid() false.
C2_TamperDetected == [][oob' # oob => ~isValid(chain', arrays')]_vars

\* C3: every mined block's hash starts with difficulty '0' characters and is
\* the hash recomputed from the block's stored fields.
C3_ProofOfWork ==
  \A i \in 2..Len(chain) :
    /\ startsWith(chain[i].hash.s, Repeat0(difficulty))
    /\ chain[i].hash = Recomputed(chain[i])

C3_Witness == \E i \in 2..Len(chain) : chain[i].nonce.n >= 2

\* C4: the payloads of the blocks in chain order followed by the queue are
\* the accepted events in the order they were enqueued, each exactly once,
\* and no two blocks hold the same array.
C4_EventsInExactlyOnePlace ==
  /\ Sealed \o Queue = accepted
  /\ \A i, j \in 2..Len(chain) : i # j => chain[i].data # chain[j].data

C4_Witness ==
  /\ Len(chain) >= 2
  /\ Queue # <<>>
  /\ \E i, j \in 1..Len(accepted) :
       /\ Get(accepted[i], "source") = JStr(<<"net-agent">>)
       /\ Get(accepted[j], "source") = JStr(<<"auth-service">>)

\* C5: a seal of a queue of n >= 1 events appends exactly one block, at the
\* index of the old chain length, on the hash of the old latest block, holding
\* the queued events in order, and leaves the queue empty.
C5_SealDrainsQueue ==
  [][/\ (pc = "idle" /\ pc' = "mining") =>
          /\ Len(Queue) >= 1
          /\ mine'.data = JRef(pendingEvents)
          /\ mine'.previousBlock = LastOf(chain)
     /\ (pc = "mining" /\ pc' = "mining") => (chain' = chain /\ Queue' = Queue)
     /\ (pc = "mining" /\ pc' = "idle") =>
          /\ Len(chain') = Len(chain) + 1
          /\ SubSeq(chain', 1, Len(chain)) = chain
          /\ LastOf(chain').index = JNum(Len(chain))
          /\ LastOf(chain').previousHash = LastOf(chain).hash
          /\ PayloadIn(LastOf(chain'), arrays') = Queue
          /\ Len(Queue) >= 1
          /\ Queue' = <<>>]_vars

C5_Witness ==
  /\ last.op = "POST /mine"
  /\ last.status = 201
  /\ pc = "idle"
  /\ Len(Payload(LastOf(chain))) = 2
  /\ Queue = <<>>

\* C6: a seal requested on an empty queue appends no block and changes
\* neither the chain nor the queue; the manual request is answered with an
\* error; no mining ever runs on an empty payload.
C6_EmptySealIsNoOp ==
  /\ [][(pc = "idle" /\ Queue = <<>> /\ inbox # <<>> /\ Head(inbox) = "POST /mine"
           /\ inbox' = Tail(inbox))
        => /\ last'.op = "POST /mine"
           /\ last'.status = 400
           /\ UNCHANGED <<chain, arrays, pendingEvents, pc, mine, accepted>>]_vars
  /\ [][(pc = "idle" /\ Queue = <<>>) => (pc' = "idle" /\ chain' = chain)]_vars
  /\ [](\A i \in 2..Len(chain) : Payload(chain[i]) # <<>>)

C6_Witness ==
  /\ last.op = "POST /mine"
  /\ last.status = 400
  /\ Len(chain) >= 2
  /\ Queue = <<>>

\* C7: an enqueue that arrives while a seal runs is never lost: the request
\* waits while the seal runs, no step drops or reorders an event held by the
\* chain or the queue, and the handled request puts its event at the tail of
\* the queue.
C7_EnqueueNeverLost ==
  [][/\ IsPrefix(Sealed \o Queue, Sealed' \o Queue')
     /\ (pc = "mining" => IsPrefix(inbox, inbox'))
     /\ (/\ inbox # <<>>
         /\ Head(inbox) = "POST /events"
         /\ inbox' = Tail(inbox)
         /\ last'.op = "POST /events"
         /\ last'.status = 202)
        => /\ Len(Queue') = Len(Queue) + 1
           /\ accepted' = Append(accepted, Queue'[Len(Queue')])]_vars

C7_Witness ==
  /\ pc = "mining"
  /\ inbox # <<>>
  /\ Head(inbox) = "POST /events"

\* C8: seals never overlap: while one runs no other can start, it runs on the
\* latest block and on the array the queue is bound to, and so no two blocks
\* hold the same array or stand on the same previous block.
C8_OneSealAtATime ==
  /\ pc = "mining" =>
       /\ ~ENABLED TimerMine
       /\ ~ENABLED PostMine
       /\ mine.previousBlock = LastOf(chain)
       /\ mine.data = JRef(pendingEvents)
  /\ \A i, j \in 2..Len(chain) :
       i # j => /\ chain[i].previousHash # chain[j].previousHash
                /\ chain[i].data.id # chain[j].data.id

C8_Witness ==
  /\ Len(chain) >= 2
  /\ pc = "mining"
  /\ inbox # <<>>
  /\ Head(inbox) = "POST /mine"

\* C9: while a seal is mining, an enqueue request that has arrived can be
\* handled.
C9_EnqueueDuringSeal ==
  (pc = "mining" /\ inbox # <<>> /\ Head(inbox) = "POST /events")
    => ENABLED PostEvents

\* C10: chain[i].index == i at every position, whatever seal attempts on an
\* empty queue came in between.
C10_IndexIsPosition == \A i \in 1..Len(chain) : chain[i].index = JNum(i - 1)

C10_Witness ==
  /\ Len(chain) >= 3
  /\ last.op = "POST /mine"
  /\ last.status = 400

\* C11: the chain is never empty and its first block is always the genesis
\* block: index 0, the fixed timestamp, previousHash "0", nonce 0, the fixed
\* payload, and the hash computed from those fields; no step removes or
\* replaces it, so the latest block always exists.
C11_GenesisFixed ==
  /\ Len(chain) >= 1
  /\ chain[1].index = JNum(0)
  /\ chain[1].timestamp = JStr(<<"T">> \o Digits(GenesisTime) \o <<"Z">>)
  /\ chain[1].data = JObj(<<Prop("message", JStr(<<"Genesis Block">>))>>)
  /\ chain[1].previousHash = JStr(<<"0">>)
  /\ chain[1].nonce = JNum(0)
  /\ chain[1].hash = Recomputed(chain[1])
  /\ LastOf(chain) \in {chain[i] : i \in 1..Len(chain)}

C11_Witness == Len(chain) >= 2 /\ pc = "mining" /\ LastOf(chain) # chain[1]

\* C12: isValid() is false whenever the stored hash of the genesis block is
\* not the hash recomputed from its stored fields, for a chain of any length.
C12_GenesisVerified ==
  chain[1].hash # Recomputed(chain[1]) => ~isValid(chain, arrays)

\* C13: every step leaves the blocks of the chain unchanged and in place: the
\* chain before the step is a prefix of the chain after it, and the only step
\* that lengthens it is the end of a seal, by exactly one block.
C13_AppendOnly ==
  [][/\ IsPrefix(chain, chain')
     /\ Len(chain') <= Len(chain) + 1
     /\ chain' # chain => (pc = "mining" /\ pc' = "idle")]_vars

C13_Witness ==
  /\ Len(chain) >= 2
  /\ last.op = "GET /verify"
  /\ Queue # <<>>
  /\ lastListeningPorts # <<>>

\* C14: once isValid() is false after a write from outside, a seal can still
\* start and, when its loop ends, appends one block on the stored hash of the
\* latest block, and isValid() is false after every later step.
C14_AppendOnInvalidChain ==
  /\ [][(oob # NoTamper /\ ~isValid(chain, arrays)) =>
          /\ ~isValid(chain', arrays')
          /\ (pc = "mining" /\ pc' = "idle") =>
               /\ chain' = Append(chain, LastOf(chain'))
               /\ LastOf(chain').previousHash = LastOf(chain).hash]_vars
  /\ []((oob # NoTamper /\ ~isValid(chain, arrays)) =>
          /\ (pc = "mining" /\ ~LoopAgain(mine) => ENABLED SealFinish)
          /\ (pc = "idle" /\ Queue # <<>> /\ inbox # <<>> /\ Head(inbox) = "POST /mine")
               => ENABLED PostMine)

C14_Witness ==
  /\ oob.field = "hash"
  /\ Len(chain) >= 3
  /\ oob.block = Len(chain) - 2
  /\ LastOf(chain).previousHash = chain[Len(chain) - 1].hash
  /\ ~isValid(chain, arrays)

\* C15: addBlock appends exactly one block and returns it: after the call
\* the latest block is the returned block, the chain is one block longer, the
\* returned block holds the payload given to the call and the hash of the
\* block that was the latest before it.
C15_AddBlockReturnsAppended ==
  [][(pc = "mining" /\ pc' = "idle") =>
       /\ Len(chain') = Len(chain) + 1
       /\ SubSeq(chain', 1, Len(chain)) = chain
       /\ returned' = LastOf(chain')
       /\ returned'.data = mine.data
       /\ returned'.previousHash = LastOf(chain).hash]_vars

C15_Witness ==
  /\ Len(chain) >= 3
  /\ returned = LastOf(chain)
  /\ last.op = "POST /mine"
  /\ last.json = returned

\* the step in which POST /events handles the request at the head of the inbox
IntakeStep ==
  /\ pc = "idle"
  /\ inbox # <<>>
  /\ Head(inbox) = "POST /events"
  /\ inbox' = Tail(inbox)

\* an optional field that is absent: not given, or given as null
Absent(v) == v.t \in {"undef", "null"}

\* a string that is empty or holds only spaces
Blank(v) == v.t = "str" /\ \A i \in 1..Len(v.s) : v.s[i] = " "

\* the parts of a request body that fail validation
Offending(body) ==
  IF body.t \notin {"obj", "arr"} THEN {"body"}
  ELSE {f \in {"type", "source"} : Get(body, f).t # "str" \/ Blank(Get(body, f))}
       \cup {f \in {"severity", "message"} : ~Absent(Get(body, f)) /\ Get(body, f).t # "str"}
       \cup {f \in {"details"} : ~Absent(Get(body, f)) /\ Get(body, f).t # "obj"}

\* the JSON answer is an error whose message names part f of the body
NamesField(json, f) ==
  json = JObj(<<Prop("error", JStr(<<
    CASE f = "body" -> "Request body must be a JSON object"
      [] f = "type" -> "Field \"type\" is required and must be a non-empty string"
      [] f = "source" -> "Field \"source\" is required and must be a non-empty string"
      [] f = "severity" -> "Field \"severity\", if provided, must be a string"
      [] f = "message" -> "Field \"message\", if provided, must be a string"
      [] f = "details" -> "Field \"details\", if provided, must be an object">>))>>)

\* C16: a request to POST /events whose body fails validation is answered
\* with status 400 and an error that names an offending field, and the
\* queue and the chain do not change.
C16_InvalidEventRejected ==
  [][(IntakeStep /\ Offending(last'.req) # {}) =>
       /\ last'.status = 400
       /\ \E f \in Offending(last'.req) : NamesField(last'.json, f)
       /\ UNCHANGED <<chain, arrays, pendingEvents, accepted>>]_vars

C16_Witness ==
  /\ last.op = "POST /events"
  /\ last.status = 400
  /\ Get(last.req, "details").t = "arr"
  /\ Len(chain) >= 2

\* the value of an optional field of the body, or its default when absent
OrDefault(v, d) == IF Absent(v) THEN d ELSE v

\* C17: a request to POST /events whose body passes validation appends
\* exactly one event at the tail of the queue, with the type and source of
\* the body, severity "info", message "" and details {} when the body gives
\* none; the event sent back is the queued one and the chain does not change.
C17_ValidEventQueued ==
  [][(IntakeStep /\ Offending(last'.req) = {}) =>
       /\ last'.status = 202
       /\ Queue' = Append(Queue, Get(last'.json, "event"))
       /\ Get(Queue'[Len(Queue')], "type") = Get(last'.req, "type")
       /\ Get(Queue'[Len(Queue')], "source") = Get(last'.req, "source")
       /\ Get(Queue'[Len(Queue')], "severity")
            = OrDefault(Get(last'.req, "severity"), JStr(<<"info">>))
       /\ Get(Queue'[Len(Queue')], "message") = OrDefault(Get(last'.req, "message"), JStr(<<>>))
       /\ Get(Queue'[Len(Queue')], "details") = OrDefault(Get(last'.req, "details"), JObj(<<>>))
       /\ chain' = chain]_vars

C17_Witness ==
  /\ last.op = "POST /events"
  /\ last.status = 202
  /\ Get(last.req, "severity") = JNull
  /\ Len(Queue) = 2
  /\ Queue[2] = Get(last.json, "event")
  /\ Get(Queue[2], "severity") = JStr(<<"info">>)

\* the severities an event may have
Severities == {"info", "low", "medium", "high"}

\* C18: every event in the queue or in the payload of a block has a severity
\* that is one of info, low, medium, high.
C18_SeverityInRange ==
  \A i \in 1..Len(Sealed \o Queue) :
    \E x \in Severities : Get((Sealed \o Queue)[i], "severity") = JStr(<<x>>)

\* the elements of a sequence
AsSet(q) == {q[i] : i \in 1..Len(q)}

\* the files of a scan as the entries of a baseline: path and digest
ScanEntries(files) == {Entry(f.path, f.hash) : f \in AsSet(files)}

\* C19: after a successful poll the agent's baseline is the snapshot just
\* read: the same keys, and for each key the fingerprint just read (the
\* digest of a file, the descriptor of a port with its process id, the
\* presence of an account), also when the poll pushed no event.
C19_BaselineIsSnapshot ==
  /\ (poll.agent = "file-agent" /\ poll.ok) =>
       AsSet(lastFileHashes) = ScanEntries(poll.current)
  /\ (poll.agent = "net-agent" /\ poll.ok) =>
       AsSet(lastListeningPorts) = AsSet(poll.current.m)
  /\ (poll.agent = "identity-agent" /\ poll.ok) =>
       /\ AsSet(lastAccounts.users) = AsSet(poll.current.users.m)
       /\ AsSet(lastAccounts.admins) = AsSet(poll.current.admins.m)

\* the last poll succeeded and found its agent's baseline empty
BaselinePoll ==
  /\ poll.agent # "none"
  /\ poll.ok
  /\ IF poll.agent = "identity-agent"
     THEN poll.before = [users |-> <<>>, admins |-> <<>>]
     ELSE poll.before = <<>>

\* C20: a successful poll that finds the agent's baseline empty pushes
\* exactly one event, of the agent's baseline type and of severity info,
\* whose details carry the whole snapshot, and sets the baseline to the
\* snapshot.
C20_BaselineEvent ==
  BaselinePoll =>
    /\ Len(poll.emitted) = 1
    /\ Get(poll.emitted[1], "severity") = JStr(<<"info">>)
    /\ poll.agent = "file-agent" =>
         /\ Get(poll.emitted[1], "type") = JStr(<<"file_integrity_baseline">>)
         /\ \A f \in AsSet(poll.current) :
              /\ Get(Get(poll.emitted[1], "details"), "path") = JStr(<<f.path>>)
              /\ Get(Get(poll.emitted[1], "details"), "hash") = f.hash
         /\ AsSet(lastFileHashes) = ScanEntries(poll.current)
    /\ poll.agent = "net-agent" =>
         /\ Get(poll.emitted[1], "type") = JStr(<<"network_baseline">>)
         /\ Get(Get(poll.emitted[1], "details"), "listening")
              = JArr([i \in 1..Len(poll.current.m) |-> poll.current.m[i].v])
         /\ AsSet(lastListeningPorts) = AsSet(poll.current.m)
    /\ poll.agent = "identity-agent" =>
         /\ Get(poll.emitted[1], "type") = JStr(<<"account_baseline">>)
         /\ Get(Get(poll.emitted[1], "details"), "users")
              = JArr([i \in 1..Len(poll.current.users.m) |-> JStr(<<poll.current.users.m[i]>>)])
         /\ Get(Get(poll.emitted[1], "details"), "admins")
              = JArr([i \in 1..Len(poll.current.admins.m) |-> JStr(<<poll.current.admins.m[i]>>)])
         /\ lastAccounts = [users |-> poll.current.users.m, admins |-> poll.current.admins.m]

\* the agents that diff a set of keys: listening ports, accounts
KeyAgents == {"net-agent", "identity-agent"}

\* the event types of an agent
ErrorType(agent) ==
  IF agent = "net-agent" THEN "network_check_error"
  ELSE IF agent = "identity-agent" THEN "account_check_error"
  ELSE "file_integrity_error"

BaselineType(agent) ==
  IF agent = "net-agent" THEN "network_baseline"
  ELSE IF agent = "identity-agent" THEN "account_baseline"
  ELSE "file_integrity_baseline"

ChangeType(agent) ==
  IF agent = "net-agent" THEN "network_port_change"
  ELSE IF agent = "identity-agent" THEN "account_membership_change"
  ELSE "file_integrity_change"

\* the baseline an agent keeps, and the baseline it starts with
BaselineOf(agent) ==
  IF agent = "net-agent" THEN lastListeningPorts
  ELSE IF agent = "identity-agent" THEN lastAccounts
  ELSE lastFileHashes

EmptyBaseline(agent) ==
  IF agent = "identity-agent" THEN [users |-> <<>>, admins |-> <<>>] ELSE <<>>

\* the events of a sequence that have the given type
OfType(es, type) == SelectSeq(es, LAMBDA e : Get(e, "type") = JStr(<<type>>))

\* the last poll was one of the port or account agent, and its snapshot failed
FailedPoll == poll.agent \in KeyAgents /\ ~poll.ok

\* C21: a port or account poll whose snapshot fails pushes exactly one event,
\* of the agent's *_check_error type, with severity high and an empty details
\* object, and leaves the agent's baseline as it found it; no failed poll and
\* no poll of another agent changes an agent's baseline, every poll is
\* diffed against the baseline then in place, and a successful poll that
\* finds a non-empty baseline (so also the first one after a failure) pushes
\* no baseline event.
C21_FailedPollKeepsBaseline ==
  /\ [](FailedPoll =>
          /\ Len(poll.emitted) = 1
          /\ Get(poll.emitted[1], "type") = JStr(<<ErrorType(poll.agent)>>)
          /\ Get(poll.emitted[1], "severity") = JStr(<<"high">>)
          /\ Get(poll.emitted[1], "details") = JObj(<<>>)
          /\ BaselineOf(poll.agent) = poll.before)
  /\ [][\A A \in KeyAgents :
          /\ (poll'.agent # A \/ ~poll'.ok) => BaselineOf(A)' = BaselineOf(A)
          /\ poll'.agent = A => poll'.before = BaselineOf(A)
          /\ (poll'.agent = A /\ poll'.ok /\ BaselineOf(A) # EmptyBaseline(A)) =>
               OfType(poll'.emitted, BaselineType(A)) = <<>>]_vars

\* the port agent recorded a baseline, then failed to read the ports, then
\* read them again and found them as they were in the baseline
C21_Witness ==
  /\ Len(accepted) = 2
  /\ Get(accepted[1], "type") = JStr(<<"network_baseline">>)
  /\ Get(accepted[2], "type") = JStr(<<"network_check_error">>)
  /\ poll.agent = "net-agent"
  /\ poll.ok
  /\ poll.before # <<>>
  /\ poll.before = lastListeningPorts
  /\ poll.emitted = <<>>

\* the key of a listening socket, from its descriptor
PortKey(d) == Get(d, "proto").s[1] \o ":" \o Get(d, "localAddress").s[1] \o ":" \o Get(d, "port").s[1]

\* the keys a JSON array lists: of port descriptors, of user names, of administrator names
PortsListed(v) == {<<"port", PortKey(d)>> : d \in AsSet(v.a)}
UsersListed(v) == {<<"user", x.s[1]>> : x \in AsSet(v.a)}
AdminsListed(v) == {<<"admin", x.s[1]>> : x \in AsSet(v.a)}

\* the keys of a snapshot that was read successfully
KeysOf(agent, current) ==
  IF agent = "net-agent" THEN {<<"port", e.k>> : e \in AsSet(current.m)}
  ELSE {<<"user", u>> : u \in AsSet(current.users.m)}
       \cup {<<"admin", a>> : a \in AsSet(current.admins.m)}

\* the keys of a baseline
BaselineKeys(agent, baseline) ==
  IF agent = "net-agent" THEN {<<"port", e.k>> : e \in AsSet(baseline)}
  ELSE {<<"user", u>> : u \in AsSet(baseline.users)}
       \cup {<<"admin", a>> : a \in AsSet(baseline.admins)}

\* the keys a baseline event carries, and the keys a change event lists as
\* added and as removed
Listed(agent, e) ==
  IF agent = "net-agent" THEN PortsListed(Get(Get(e, "details"), "listening"))
  ELSE UsersListed(Get(Get(e, "details"), "users"))
       \cup AdminsListed(Get(Get(e, "details"), "admins"))

Added(agent, e) ==
  IF agent = "net-agent" THEN PortsListed(Get(Get(e, "details"), "newListening"))
  ELSE UsersListed(Get(Get(e, "details"), "newUsers"))
       \cup AdminsListed(Get(Get(e, "details"), "newAdmins"))

Removed(agent, e) ==
  IF agent = "net-agent" THEN PortsListed(Get(Get(e, "details"), "closed"))
  ELSE UsersListed(Get(Get(e, "details"), "removedUsers"))
       \cup AdminsListed(Get(Get(e, "details"), "removedAdmins"))

\* the poll pushed one event, and it has the given type
OneEvent(type) == Len(poll.emitted) = 1 /\ Get(poll.emitted[1], "type") = JStr(<<type>>)

\* b is a plus one new key
PlusOneKey(a, b) == a \subseteq b /\ Cardinality(b \ a) = 1

\* C22: for the port and account agents, over the polls S1, S2, S3, S4 an
\* agent makes in a row from process start: the first poll S1 pushes one
\* baseline event that carries all the keys of S1; when S2 is S1 plus one new
\* key K, the S2 poll pushes one change event that lists K as added; when
\* then S3 is S2 without K, the S3 poll pushes one change event that lists K
\* as removed; when then S4 is S3 unchanged, the S4 poll pushes no event.
C22_BaselineConvergence ==
  LET A == poll.agent
      r == poll.run
      K(i) == KeysOf(A, r[i])
  IN (A \in KeyAgents /\ r # <<>>) =>
       /\ Len(r) = 1 =>
            /\ OneEvent(BaselineType(A))
            /\ Listed(A, poll.emitted[1]) = K(1)
       /\ (Len(r) = 2 /\ PlusOneKey(K(1), K(2))) =>
            /\ OneEvent(ChangeType(A))
            /\ Added(A, poll.emitted[1]) = K(2) \ K(1)
       /\ (Len(r) = 3 /\ PlusOneKey(K(1), K(2)) /\ K(3) = K(1)) =>
            /\ OneEvent(ChangeType(A))
            /\ Removed(A, poll.emitted[1]) = K(2) \ K(3)
       /\ (Len(r) = 4 /\ PlusOneKey(K(1), K(2)) /\ K(3) = K(1) /\ r[4] = r[3]) =>
            poll.emitted = <<>>

\* the events of a sequence whose details name the given path
AboutPath(es, path) ==
  SelectSeq(es, LAMBDA e : Get(Get(e, "details"), "path") = JStr(<<path>>))

\* the entry of a path in a baseline of the file agent, undefined when it has none
DigestIn(baseline, path) ==
  IF \E e \in AsSet(baseline) : e.k = path
  THEN (CHOOSE e \in AsSet(baseline) : e.k = path).v
  ELSE JUndef

\* C23: in a poll of the file agent, for every file that is read and whose
\* path has a digest in the baseline the poll found: when the digest read is
\* the one of the baseline, the poll pushes no event for that path; when it
\* differs, the poll pushes exactly one event for that path, a
\* file_integrity_change of severity high whose oldHash is the digest of the
\* baseline and whose newHash is the digest read, the two being different;
\* either way the baseline then holds the digest read, so that a further
\* poll of the same content falls under the first case.
C23_FileChange ==
  poll.agent = "file-agent" =>
    \A f \in AsSet(poll.current) :
      (f.hash # JNull /\ DigestIn(poll.before, f.path) # JUndef) =>
        LET old == DigestIn(poll.before, f.path)
            es == AboutPath(poll.emitted, f.path)
        IN /\ old = f.hash => es = <<>>
           /\ old # f.hash =>
                /\ Len(es) = 1
                /\ Get(es[1], "type") = JStr(<<"file_integrity_change">>)
                /\ Get(es[1], "severity") = JStr(<<"high">>)
                /\ Get(Get(es[1], "details"), "oldHash") = old
                /\ Get(Get(es[1], "details"), "newHash") = f.hash
                /\ Get(Get(es[1], "details"), "oldHash") # Get(Get(es[1], "details"), "newHash")
           /\ DigestIn(lastFileHashes, f.path) = f.hash

\* a poll of the file agent has found a known file with new content
C23_Witness ==
  /\ poll.agent = "file-agent"
  /\ \E f \in AsSet(poll.current) :
       /\ f.hash # JNull
       /\ DigestIn(poll.before, f.path) \notin {JUndef, f.hash}
       /\ Len(AboutPath(poll.emitted, f.path)) = 1
       /\ DigestIn(lastFileHashes, f.path) = f.hash

\* the last poll was one of the port or account agent, it succeeded and it
\* found a baseline with at least one key
DiffPoll ==
  /\ poll.agent \in KeyAgents
  /\ poll.ok
  /\ BaselineKeys(poll.agent, poll.before) # {}

\* the number of entries of the lists a change event carries as added, as removed
AddedCount(agent, e) ==
  IF agent = "net-agent" THEN Len(Get(Get(e, "details"), "newListening").a)
  ELSE Len(Get(Get(e, "details"), "newUsers").a) + Len(Get(Get(e, "details"), "newAdmins").a)

RemovedCount(agent, e) ==
  IF agent = "net-agent" THEN Len(Get(Get(e, "details"), "closed").a)
  ELSE Len(Get(Get(e, "details"), "removedUsers").a)
       + Len(Get(Get(e, "details"), "removedAdmins").a)

\* C24: a successful poll of the port or account agent that finds a
\* non-empty baseline pushes no event when the snapshot has the keys of the
\* baseline, and otherwise pushes exactly one event, of the agent's change
\* type, whose added lists hold exactly the keys of the snapshot that are not
\* in the baseline, each once, whose removed lists hold exactly the keys of
\* the baseline that are not in the snapshot, each once, and whose severity is
\* medium for ports and high for accounts.
C24_ChangeEvent ==
  DiffPoll =>
    LET A == poll.agent
        now == KeysOf(A, poll.current)
        was == BaselineKeys(A, poll.before)
    IN /\ now = was => poll.emitted = <<>>
       /\ now # was =>
            /\ OneEvent(ChangeType(A))
            /\ Added(A, poll.emitted[1]) = now \ was
            /\ AddedCount(A, poll.emitted[1]) = Cardinality(now \ was)
            /\ Removed(A, poll.emitted[1]) = was \ now
            /\ RemovedCount(A, poll.emitted[1]) = Cardinality(was \ now)
            /\ Get(poll.emitted[1], "severity")
                 = JStr(<<IF A = "net-agent" THEN "medium" ELSE "high">>)

\* a poll of the port agent has found one socket more than the baseline has
C24_Witness ==
  /\ DiffPoll
  /\ poll.agent = "net-agent"
  /\ KeysOf("net-agent", poll.current) \ BaselineKeys("net-agent", poll.before) # {}
  /\ Len(poll.emitted) = 1

----------------------------------------------------------------------------
(* server.js: the server with its seal timer. The timer of                  *)
(* minePendingEventsIfAny fires again and again, so a seal that can start    *)
(* does start; a pass of the mining loop that can run does run, and a loop  *)
(* that has found its nonce returns.                                        *)

\* a pass of the mining loop can run: MineStep is enabled, and every pass
\* changes the nonce
CanMineStep == pc = "mining" /\ LoopAgain(mine)

\* weak fairness of MineStep, WF_vars(MineStep), written out with CanMineStep
\* for ENABLED <<MineStep>>_vars
FairMineStep == []<>(~CanMineStep) \/ []<><<MineStep>>_vars

SpecSealing ==
  /\ Init
  /\ [][Next]_vars
  /\ WF_vars(TimerMine)
  /\ FairMineStep
  /\ WF_vars(SealFinish)

\* C25: every event pushed on the pending queue is eventually an event of
\* the payload of a block of the chain, whenever the agents poll, the
\* requests arrive and the seal timer fires: the i-th event accepted becomes
\* the i-th event sealed.
C25_AcceptedIsSealed ==
  \A i \in 1..MaxEvents :
    (Len(accepted) >= i) ~> (Len(Sealed) >= i /\ Sealed[i] = accepted[i])

\* two events pushed by the port agent, each sealed by the timer into a
\* block of its own
C25_Witness ==
  /\ Len(accepted) = 2
  /\ Sealed = accepted
  /\ Len(chain) = 3
  /\ last = NoResponse
  /\ pc = "idle"

\* the hash of block b's index, timestamp, payload and link with nonce n
HashAt(b, n) == calculateHash(b.index, b.timestamp, b.data, b.previousHash, JNum(n), arrays)

\* C26: mineBlock starts from nonce 0 and tries 1, 2, 3, ... in this order,
\* each pass hashing the index after the previous block's, the timestamp read
\* once before the loop, the payload, the previous block's hash and the
\* nonce; it returns at the first nonce whose hash has the difficulty prefix
\* and at no other: a mined block has a nonce >= 1, its hash is the hash of
\* its fields with that nonce and has the prefix, and no smaller nonce >= 1
\* gives a hash with the prefix; and a mining run that can find such a nonce
\* ends.
C26_SmallestNonce ==
  /\ [](\A i \in 2..Len(chain) :
          /\ chain[i].nonce.t = "num"
          /\ chain[i].nonce.n >= 1
          /\ chain[i].index = JNum(chain[i - 1].index.n + 1)
          /\ chain[i].previousHash = chain[i - 1].hash
          /\ chain[i].hash = HashAt(chain[i], chain[i].nonce.n)
          /\ startsWith(chain[i].hash.s, Repeat0(difficulty))
          /\ \A n \in 1..(chain[i].nonce.n - 1) :
               ~startsWith(HashAt(chain[i], n).s, Repeat0(difficulty)))
  /\ [][/\ (pc = "idle" /\ pc' = "mining") =>
             /\ mine'.nonce = 0
             /\ mine'.index = JNum(LastOf(chain).index.n + 1)
             /\ mine'.previousBlock = LastOf(chain)
        /\ (pc = "mining" /\ pc' = "mining" /\ mine' # mine) =>
             /\ mine'.nonce = mine.nonce + 1
             /\ mine'.timestamp = mine.timestamp
             /\ mine'.index = mine.index
             /\ mine'.data = mine.data
             /\ mine'.previousBlock = mine.previousBlock
             /\ mine'.hash = calculateHash(mine.index, mine.timestamp, mine.data,
                                           mine.previousBlock.hash, JNum(mine'.nonce), arrays)
             /\ (mine.nonce >= 1 => ~startsWith(mine.hash.s, Repeat0(difficulty)))
        /\ (pc = "mining" /\ pc' = "idle") =>
             /\ mine.nonce >= 1
             /\ startsWith(mine.hash.s, Repeat0(difficulty))
             /\ LastOf(chain').nonce = JNum(mine.nonce)
             /\ LastOf(chain').timestamp = mine.timestamp
             /\ LastOf(chain').hash = mine.hash]_vars
  /\ (pc = "mining") ~> (pc = "idle")

\* a block was mined at a nonce above 1, after the passes that tried the
\* smaller nonces and found no prefix
C26_Witness ==
  /\ pc = "idle"
  /\ \E i \in 2..Len(chain) :
       /\ chain[i].nonce.n >= 2
       /\ \A n \in 1..(chain[i].nonce.n - 1) :
            ~startsWith(HashAt(chain[i], n).s, Repeat0(difficulty))

\* C27: for the port and account agents, a poll that comes after a
\* successful poll of the same agent pushes no event of the agent's baseline
\* type, whatever the snapshot it reads and whatever the snapshots read
\* before.
C27_BaselineOnlyOnce ==
  (poll.agent \in KeyAgents /\ poll.agent \in poll.earlier) =>
    OfType(poll.emitted, BaselineType(poll.agent)) = <<>>

\* the pairs of sets a successful poll of the account agent can read
AccountReadings ==
  {[users |-> s.users.m, admins |-> s.admins.m] :
     s \in {x \in AccountSnapshots : x.users.ok /\ x.admins.ok}}

\* the names a JSON array of strings holds
NamesIn(v) == {x.s[1] : x \in AsSet(v.a)}

\* C28: the users and the administrators of the account baseline always come
\* from one and the same poll: the baseline is the pair it had at process
\* start or the pair of sets one successful poll read, and after a successful
\* poll it is the pair that poll read; a poll in which the users or the
\* administrators could not be read changes neither set; a poll pushes at
\* most one event, and a baseline or change event carries both sets: the
\* users and the administrators read, or the users and the administrators
\* added and removed.
C28_AccountsTogether ==
  /\ lastAccounts \in AccountReadings \cup {EmptyBaseline("identity-agent")}
  /\ poll.agent = "identity-agent" =>
       /\ poll.ok =>
            /\ AsSet(lastAccounts.users) = AsSet(poll.current.users.m)
            /\ AsSet(lastAccounts.admins) = AsSet(poll.current.admins.m)
       /\ ~poll.ok => lastAccounts = poll.before
       /\ Len(poll.emitted) <= 1
       /\ \A e \in AsSet(OfType(poll.emitted, "account_baseline")) :
            /\ NamesIn(Get(Get(e, "details"), "users")) = AsSet(poll.current.users.m)
            /\ NamesIn(Get(Get(e, "details"), "admins")) = AsSet(poll.current.admins.m)
       /\ \A e \in AsSet(OfType(poll.emitted, "account_membership_change")) :
            /\ NamesIn(Get(Get(e, "details"), "newUsers"))
                 = AsSet(poll.current.users.m) \ AsSet(poll.before.users)
            /\ NamesIn(Get(Get(e, "details"), "removedUsers"))
                 = AsSet(poll.before.users) \ AsSet(poll.current.users.m)
            /\ NamesIn(Get(Get(e, "details"), "newAdmins"))
                 = AsSet(poll.current.admins.m) \ AsSet(poll.before.admins)
            /\ NamesIn(Get(Get(e, "details"), "removedAdmins"))
                 = AsSet(poll.before.admins) \ AsSet(poll.current.admins.m)

\* a poll has read a new user who is also a new administrator, and pushed
\* one event for both
C28_Witness ==
  /\ poll.agent = "identity-agent"
  /\ poll.ok
  /\ Len(OfType(poll.emitted, "account_membership_change")) = 1
  /\ AsSet(poll.current.users.m) # AsSet(poll.before.users)
  /\ AsSet(poll.current.admins.m) # AsSet(poll.before.admins)
  /\ lastAccounts = [users |-> poll.current.users.m, admins |-> poll.current.admins.m]

\* C29: in a poll of the file agent, every file that cannot be read gets
\* exactly one event for its path, a file_integrity_error of severity high,
\* and its path keeps the entry it had in the baseline, none or the old
\* digest; every file of the same scan that is read, before or after it, is
\* still diffed and recorded: it gets one file_integrity_baseline event when
\* the baseline had no entry for its path, one file_integrity_change event
\* when the entry was another digest, no event when the entry was the digest
\* read, and the baseline then holds the digest read.
C29_UnreadableFile ==
  (poll.agent = "file-agent" /\ \E f \in AsSet(poll.current) : f.hash = JNull) =>
    \A f \in AsSet(poll.current) :
      LET es == AboutPath(poll.emitted, f.path)
          old == DigestIn(poll.before, f.path)
      IN IF f.hash = JNull
         THEN /\ Len(es) = 1
              /\ Get(es[1], "type") = JStr(<<"file_integrity_error">>)
              /\ Get(es[1], "severity") = JStr(<<"high">>)
              /\ DigestIn(lastFileHashes, f.path) = old
         ELSE /\ old = JUndef =>
                   Len(es) = 1 /\ Get(es[1], "type") = JStr(<<"file_integrity_baseline">>)
              /\ old \notin {JUndef, f.hash} =>
                   Len(es) = 1 /\ Get(es[1], "type") = JStr(<<"file_integrity_change">>)
              /\ old = f.hash => es = <<>>
              /\ DigestIn(lastFileHashes, f.path) = f.hash

\* a scan whose first file cannot be read and whose second file is read and
\* recorded
C29_Witness ==
  /\ poll.agent = "file-agent"
  /\ Len(poll.current) = 2
  /\ poll.current[1].hash = JNull
  /\ poll.current[2].hash # JNull
  /\ Len(AboutPath(poll.emitted, poll.current[1].path)) = 1
  /\ Len(AboutPath(poll.emitted, poll.current[2].path)) = 1
  /\ DigestIn(lastFileHashes, poll.current[2].path) = poll.current[2].hash

\* the paths of a scan, and the paths of a baseline of the file agent
ScanPaths(files) == {f.path : f \in AsSet(files)}
BaselinePaths(baseline) == {e.k : e \in AsSet(baseline)}

\* the event types of the file agent
FileEventTypes == {"file_integrity_baseline", "file_integrity_change", "file_integrity_error"}

\* C30: a poll of the file agent pushes no event for a path that is in the
\* baseline and not in the scan: every event it pushes names a file of the
\* scan, at most one event per file; and every event of the file agent, in
\* the queue or sealed, has the type file_integrity_baseline,
\* file_integrity_change or file_integrity_error.
C30_RemovedFileIsSilent ==
  /\ poll.agent = "file-agent" =>
       /\ \A path \in BaselinePaths(poll.before) \ ScanPaths(poll.current) :
            AboutPath(poll.emitted, path) = <<>>
       /\ \A e \in AsSet(poll.emitted) :
            \E f \in AsSet(poll.current) : Get(Get(e, "details"), "path") = JStr(<<f.path>>)
       /\ Len(poll.emitted) <= Len(poll.current)
  /\ \A e \in AsSet(accepted) :
       Get(e, "source") = JStr(<<"file-agent">>) =>
         \E type \in FileEventTypes : Get(e, "type") = JStr(<<type>>)

\* a poll of the file agent has not found a file that is in the baseline,
\* and has pushed nothing
C30_Witness ==
  /\ poll.agent = "file-agent"
  /\ BaselinePaths(poll.before) \ ScanPaths(poll.current) # {}
  /\ poll.emitted = <<>>
  /\ BaselinePaths(lastFileHashes) \ ScanPaths(poll.current) # {}

----------------------------------------------------------------------------
(* server.js: the three agents and the seal timer, the timers of the        *)
(* server, on the one thread                                                *)

NextTimers ==
  \/ PollFiles
  \/ PollNetwork
  \/ PollAccounts
  \/ TimerMine
  \/ MineStep
  \/ SealFinish

SpecTimers == Init /\ [][NextTimers]_vars

\* a step of a poll: something changes, the thread is idle before and after
\* it and no request is taken from the inbox
PollStep == vars' # vars /\ pc = "idle" /\ pc' = "idle" /\ inbox' = inbox

\* C31: a poll changes no baseline but the one of the agent that polls,
\* leaves the chain and every array of the heap but the queue as they are,
\* keeps the queue bound to the same array, and that array becomes what it
\* was followed by the events of the poll: no event of the queue is removed,
\* moved or altered.
C31_PollFrame ==
  [][PollStep =>
       /\ poll'.agent # "file-agent" => lastFileHashes' = lastFileHashes
       /\ poll'.agent # "net-agent" => lastListeningPorts' = lastListeningPorts
       /\ poll'.agent # "identity-agent" => lastAccounts' = lastAccounts
       /\ chain' = chain
       /\ pendingEvents' = pendingEvents
       /\ Len(arrays') = Len(arrays)
       /\ \A id \in 1..Len(arrays) : id # pendingEvents => arrays'[id] = arrays[id]
       /\ arrays'[pendingEvents] = arrays[pendingEvents] \o poll'.emitted
       /\ \A i \in 1..Len(poll'.emitted) :
            Get(poll'.emitted[i], "source") = JStr(<<poll'.agent>>)]_vars

\* the queue holds an event of one agent followed by the event another
\* agent's poll has just pushed
C31_Witness ==
  /\ Len(Queue) = 2
  /\ Get(Queue[1], "source") # Get(Queue[2], "source")
  /\ poll.emitted = <<Queue[2]>>
  /\ Get(Queue[2], "source") = JStr(<<poll.agent>>)

----------------------------------------------------------------------------
(* server.js: a snapshot that does not return. The agents read the host     *)
(* with execSync and readFileSync, synchronous calls without a timeout, made *)
(* on the one thread from the timer callback: while such a call has not     *)
(* returned the thread runs nothing else.                                   *)

\* the agents
Agents == {"file-agent", "net-agent", "identity-agent"}

\* what the thread is running when the snapshot of an agent is inside its call
Snapshotting(agent) ==
  IF agent = "net-agent" THEN "execSync netstat"
  ELSE IF agent = "identity-agent" THEN "execSync net"
  ELSE "readFileSync"

\* the timer of an agent fires and the call of its snapshot does not return
Hang ==
  /\ Idle
  /\ \E agent \in Agents : pc' = Snapshotting(agent)
  /\ UNCHANGED <<agentVars, oob, chain, arrays, pendingEvents, inbox, mine, last, returned,
                 accepted>>

NextHung ==
  \/ Next
  \/ Hang

SpecHung == Init /\ [][NextHung]_vars

\* C32: while the snapshot of one agent is inside a call that does not
\* return, a poll of each other agent can run, an enqueue request that has
\* arrived can be handled, and the seal timer can start the seal of a
\* non-empty queue.
C32_HangStallsOnlyItsAgent ==
  \A agent \in Agents :
    (pc = Snapshotting(agent) /\ Len(accepted) + Len(Posting(inbox)) < MaxEvents) =>
      /\ agent # "file-agent" => ENABLED PollFiles
      /\ agent # "net-agent" => ENABLED PollNetwork /\ ENABLED RunNetworkCheck
      /\ agent # "identity-agent" => ENABLED PollAccounts
      /\ (inbox # <<>> /\ Head(inbox) = "POST /events") => ENABLED PostEvents
      /\ Queue # <<>> => ENABLED TimerMine

\* C33: the array a sealed block holds as its data is never the array the
\* queue is bound to, and no step (an enqueue, a poll, a seal) changes a
\* block of the chain or the content of the array it holds; a step that
\* starts with isValid() true ends with isValid() true.
C33_SealedPayloadFrozen ==
  /\ [](\A i \in 2..Len(chain) : chain[i].data # JRef(pendingEvents))
  /\ [][/\ \A i \in 2..Len(chain) :
             /\ chain'[i] = chain[i]
             /\ PayloadIn(chain[i], arrays') = PayloadIn(chain[i], arrays)
        /\ isValid(chain, arrays) => isValid(chain', arrays')]_vars

\* after a seal an event was pushed: the sealed block holds its own array,
\* the queue another one
C33_Witness ==
  /\ Len(chain) = 2
  /\ Len(Payload(chain[2])) = 1
  /\ Len(Queue) = 1
  /\ chain[2].data # JRef(pendingEvents)
  /\ Payload(chain[2]) # Queue
  /\ pc = "idle"

----------------------------------------------------------------------------
(* A write from outside the program: a block that was not mined is pushed   *)
(* on the chain array, once. The Block constructor computes its hash.       *)

\* the fields of the block pushed: an index, a link and a nonce, right or wrong
ForgedIndexes == {JNum(Len(chain)), JNum(7)}
ForgedLinks == {LastOf(chain).hash, JStr(<<"0">>)}
ForgedNonces == {JNum(0), JNum(1)}

\* chain.chain.push(new Block({ index, timestamp, data, previousHash, nonce }))
Forge ==
  /\ Idle
  /\ oob = NoTamper
  /\ \E index \in ForgedIndexes, previousHash \in ForgedLinks, nonce \in ForgedNonces :
       chain' = Append(chain, Block(index, JStr(<<"T", "9", "Z">>),
                                    JObj(<<Prop("value", JNum(999))>>),
                                    previousHash, nonce, JStr(<<>>), arrays))
  /\ oob' = [block |-> Len(chain), field |-> "block"]
  /\ UNCHANGED <<agentVars, arrays, pendingEvents, inbox, pc, mine, last, returned, accepted>>

NextForge ==
  \/ Receive
  \/ PostEvents
  \/ PostMine
  \/ MineStep
  \/ SealFinish
  \/ Forge

SpecForge == Init /\ [][NextForge]_vars

----------------------------------------------------------------------------
(* the file agent: a file that goes and comes back                          *)

\* setInterval(runFileIntegrityCheck, ...) when collectFilesUnderRoot finds no
\* file: the root is empty, or it cannot be listed
PollNoFiles ==
  /\ Idle
  /\ \E now \in Times :
       /\ FileIntegrityCheck(<<>>, now)
       /\ poll' = Polled("file-agent", TRUE, <<>>, lastFileHashes,
                         FileEvents(<<>>, lastFileHashes, now))

NextFiles ==
  \/ PollFiles
  \/ PollNoFiles

SpecFiles == Init /\ [][NextFiles]_vars

\* C35: a poll of the file agent that does not find a path of the baseline
\* leaves the digest of that path in the baseline. In a run of polls of the
\* file agent, when a path read in one poll is in none of the scans that
\* follow until a later poll reads it again: if the digest is the same the
\* later poll pushes no event for the path; if it differs the later poll
\* pushes exactly one event for the path, a file_integrity_change whose
\* oldHash is the digest read before the path went and whose newHash is the
\* digest read now; in neither case a file_integrity_baseline event.
C35_Reappearance ==
  poll.agent = "file-agent" =>
    /\ \A path \in BaselinePaths(poll.before) \ ScanPaths(poll.current) :
         DigestIn(lastFileHashes, path) = DigestIn(poll.before, path)
    /\ LET r == poll.run
           n == Len(r)
       IN \A i \in 1..(n - 2) : \A f \in AsSet(r[i]), g \in AsSet(r[n]) :
            (f.path = g.path /\ \A k \in (i + 1)..(n - 1) : f.path \notin ScanPaths(r[k])) =>
              LET es == AboutPath(poll.emitted, g.path)
              IN /\ g.hash = f.hash => es = <<>>
                 /\ g.hash # f.hash =>
                      /\ Len(es) = 1
                      /\ Get(es[1], "type") = JStr(<<"file_integrity_change">>)
                      /\ Get(Get(es[1], "details"), "oldHash") = f.hash
                      /\ Get(Get(es[1], "details"), "newHash") = g.hash
                 /\ \A e \in AsSet(es) : Get(e, "type") # JStr(<<"file_integrity_baseline">>)

\* a file was read, then gone, and is back with other content: the poll
\* has pushed the change from the digest read before it went
C35_Witness ==
  /\ poll.agent = "file-agent"
  /\ Len(poll.run) = 3
  /\ \E f \in AsSet(poll.run[1]), g \in AsSet(poll.run[3]) :
       /\ f.path = g.path
       /\ f.path \notin ScanPaths(poll.run[2])
       /\ f.hash # g.hash
       /\ Len(poll.emitted) = 1
       /\ Get(Get(poll.emitted[1], "details"), "oldHash") = f.hash
       /\ DigestIn(lastFileHashes, g.path) = g.hash

----------------------------------------------------------------------------
(* the file agent: a file that is new                                       *)

\* C36: in a poll of the file agent, the first or a later one, every file
\* that is read and whose path has no digest in the baseline the poll found
\* gets exactly one event, a file_integrity_baseline of severity info with
\* its path and digest, and no file_integrity_change; the baseline then
\* holds its digest; and a poll that follows a successful poll pushes no
\* event for a file that the two scans hold with the same content.
C36_NewFile ==
  poll.agent = "file-agent" =>
    /\ \A f \in AsSet(poll.current) :
         (f.hash # JNull /\ DigestIn(poll.before, f.path) = JUndef) =>
           LET es == AboutPath(poll.emitted, f.path)
           IN /\ Len(es) = 1
              /\ Get(es[1], "type") = JStr(<<"file_integrity_baseline">>)
              /\ Get(es[1], "severity") = JStr(<<"info">>)
              /\ Get(Get(es[1], "details"), "hash") = f.hash
              /\ DigestIn(lastFileHashes, f.path) = f.hash
    /\ LET r == poll.run
           n == Len(r)
       IN n >= 2 =>
            \A f \in AsSet(r[n]) \cap AsSet(r[n - 1]) : AboutPath(poll.emitted, f.path) = <<>>

\* after a first poll, a poll has found a new file and pushed its baseline
\* event, and the poll after it has read the same content and pushed nothing
C36_Witness ==
  /\ poll.agent = "file-agent"
  /\ Len(poll.run) = 3
  /\ poll.run[1] # <<>>
  /\ poll.run[3] = poll.run[2]
  /\ poll.emitted = <<>>
  /\ Len(accepted) = 2
  /\ \E f \in AsSet(poll.run[2]) :
       /\ f.path \notin ScanPaths(poll.run[1])
       /\ Get(accepted[2], "type") = JStr(<<"file_integrity_baseline">>)
       /\ Get(Get(accepted[2], "details"), "path") = JStr(<<f.path>>)
       /\ DigestIn(lastFileHashes, f.path) = f.hash

----------------------------------------------------------------------------
(* the agent modules and the copies in server.js                            *)

\* C37: the agent modules, started from the same empty baselines as the
\* copies in server.js and given every snapshot the copies read, failed
\* ones too, have after every poll handed to emitEvent the sequence of
\* events the copies have pushed on the queue, and hold the baselines the
\* copies hold: the same entries in the same order.
C37_ModulesAgree ==
  /\ modules.emitted = accepted
  /\ modules.lastFileHashes = lastFileHashes
  /\ modules.lastListeningPorts = lastListeningPorts
  /\ modules.lastAccounts = lastAccounts

\* after a baseline poll, a poll of the network agent has found other
\* ports: both have emitted the change and taken the new baseline
C37_Witness ==
  /\ poll.agent = "net-agent"
  /\ poll.ok
  /\ poll.before # <<>>
  /\ Len(poll.emitted) = 1
  /\ Len(modules.emitted) = 2
  /\ modules.emitted[2] = poll.emitted[1]
  /\ Get(modules.emitted[2], "type") = JStr(<<"network_port_change">>)
  /\ modules.lastListeningPorts = poll.current.m
  /\ modules.lastListeningPorts # poll.before

====
